---- MODULE Spec2Model ----
(***************************************************************************)
(* TaskTriage: multi-root reconciliation of task notes, the four-phase     *)
(* analysis pipeline (daily -> weekly -> monthly -> annual) and the        *)
(* temporal promotion scheduler, modelled from src/tasktriage/files.py,    *)
(* src/tasktriage/cli.py, src/tasktriage/config.py and                     *)
(* src/tasktriage/streamlit_ui/logic.py.                                   *)
(*                                                                         *)
(* A file name is a record: the numeric fields of its stem (the parts      *)
(* separated by "_"), an optional page number ("_Page_N"), the inner       *)
(* suffixes (".raw_notes", ".triaged", ".week", ...) and the extension.    *)
(*   20251222_090000_Page_1.png = [stem |-> <<20251222, 90000>>,           *)
(*                                 page |-> 1, mids |-> <<>>, ext |-> "png"]*)
(*   22_12_2025.triaged.txt     = [stem |-> <<22, 12, 2025>>, page |-> 0,  *)
(*                                 mids |-> <<"triaged">>, ext |-> "txt"]  *)
(* A path is a record [root, dirs, name]; the file system is a function    *)
(* from the existing paths to their modification times.                    *)
(* Dates are day ordinals counted from Monday 2025-09-01.                  *)
(***************************************************************************)
EXTENDS Integers, Sequences, FiniteSets, TLC

VARIABLES
    fs,                 \* existing files: path -> st_mtime
    clock,              \* the mtime a write receives now
    today,              \* datetime.now(), as a day ordinal
    input_dirs,         \* get_all_input_directories(): available roots in priority order
    pc,                 \* position of the running pipeline
    entry,              \* "cli" (cli.main) or "ui" (run_triage_pipeline)
    pref,               \* --files preference of the run: "png" or "txt"
    unanalyzed_files,   \* items returned by load_all_unanalyzed_task_notes
    futures,            \* state of each submitted daily task
    weeks_to_analyze,   \* result of _find_weeks_needing_analysis
    months_to_analyze,  \* result of _find_months_needing_analysis
    years_to_analyze,   \* result of _find_years_needing_analysis
    idx,                \* index of the next rollup period of the running phase
    counts,             \* per granularity: successful / failed
    out,                \* summary lines printed by the run, in order
    exit_code,          \* process exit code of the CLI run (-1: none yet)
    calls,              \* generation calls made by the run, in order
    written             \* paths written by the run

vars == <<fs, clock, today, input_dirs, pc, entry, pref, unanalyzed_files, futures,
          weeks_to_analyze, months_to_analyze, years_to_analyze, idx, counts, out,
          exit_code, calls, written>>

-----------------------------------------------------------------------------
(* Bounds *)

MaxClock == 1           \* mtimes range over 0..MaxClock
MaxNotes == 2           \* source files the environment captures
MaxFailures == 1        \* generations that fail in one run
MaxDays == 3            \* days that pass in the scheduler specification
MaxRecords == 6         \* analysis records present in the scheduler specification
MaxTasks == 6           \* notes waiting in the pool specification

NoDate == -1            \* a date that failed to parse (ValueError)
NoStamp == <<>>         \* _extract_timestamp returned None

-----------------------------------------------------------------------------
(* Calendar: day ordinal <-> (year, month, day), datetime / timedelta *)

\* day 0 is Monday 2025-09-01
Epoch == [year |-> 2025, month |-> 9]
EpochYear == Epoch.year
EpochMonth == Epoch.month

IsLeap(y) == (y % 4 = 0 /\ y % 100 # 0) \/ y % 400 = 0

MonthLen(y, m) ==
    IF m \in {4, 6, 9, 11} THEN 30
    ELSE IF m = 2 THEN (IF IsLeap(y) THEN 29 ELSE 28)
    ELSE 31

\* months are indexed from the epoch month: 0 = September 2025, 1 = October 2025 ...
YearOfIndex(k) == EpochYear + ((EpochMonth - 1 + k) \div 12)
MonthOfIndex(k) == ((EpochMonth - 1 + k) % 12) + 1
IndexOf(y, m) == (y - EpochYear) * 12 + (m - EpochMonth)

\* the months the model's dates fall in: September 2025 .. December 2026
LastMonthIndex == IndexOf(2026, 12)

RECURSIVE DaysBefore(_)
DaysBefore(k) ==
    IF k <= 0 THEN 0
    ELSE DaysBefore(k - 1) + MonthLen(YearOfIndex(k - 1), MonthOfIndex(k - 1))

\* ordinal of the first day of each month
MonthStarts == [k \in 0..(LastMonthIndex + 1) |-> DaysBefore(k)]

StartOfMonth(k) == MonthStarts[k]

RECURSIVE MonthIndexOfDay(_, _)
MonthIndexOfDay(n, k) ==
    IF n < StartOfMonth(k + 1) THEN k ELSE MonthIndexOfDay(n, k + 1)

\* month index of each day of the model's months
DayMonths == [n \in 0..(StartOfMonth(LastMonthIndex + 1) - 1) |-> MonthIndexOfDay(n, 0)]

MonthIndexOf(n) == IF n \in DOMAIN DayMonths THEN DayMonths[n] ELSE MonthIndexOfDay(n, 0)

YearOf(n) == YearOfIndex(MonthIndexOf(n))
MonthOf(n) == MonthOfIndex(MonthIndexOf(n))
DayOf(n) == n - StartOfMonth(MonthIndexOf(n)) + 1

\* datetime(y, m, d) as an ordinal; NoDate when the date is invalid or outside the model's months
ToOrdinal(y, m, d) ==
    IF m \in 1..12 /\ d >= 1 /\ IndexOf(y, m) \in 0..LastMonthIndex /\ d <= MonthLen(y, m)
    THEN StartOfMonth(IndexOf(y, m)) + d - 1
    ELSE NoDate

\* date.weekday(): 0 = Monday ... 6 = Sunday (the epoch day is a Monday)
weekday(n) == n % 7

\* strftime / strptime of the formats the code uses, on numeric stems
strftime_dmY(n) == <<DayOf(n), MonthOf(n), YearOf(n)>>          \* "%d_%m_%Y"
strftime_Ymd(n) == <<YearOf(n) * 10000 + MonthOf(n) * 100 + DayOf(n)>>   \* "%Y%m%d"
strftime_mY(n) == <<MonthOf(n), YearOf(n)>>                     \* "%m_%Y"
strftime_Y(n) == <<YearOf(n)>>                                  \* "%Y"

\* datetime.strptime(s, "%Y%m%d") on an 8-digit field; NoDate stands for ValueError
strptime_Ymd(f) == ToOrdinal(f \div 10000, (f \div 100) % 100, f % 100)

\* datetime.strptime(s, "%d_%m_%Y") on a stem; NoDate stands for ValueError
strptime_dmY(stem) ==
    IF Len(stem) = 3 /\ stem[3] >= 1000 /\ stem[3] <= 9999
    THEN ToOrdinal(stem[3], stem[2], stem[1])
    ELSE NoDate

\* datetime.strptime(s, "%m_%Y") on a stem: the first day of that month
strptime_mY(stem) ==
    IF Len(stem) = 2 /\ stem[2] >= 1000 /\ stem[2] <= 9999
    THEN ToOrdinal(stem[2], stem[1], 1)
    ELSE NoDate

-----------------------------------------------------------------------------
(* File names and paths *)

Name(stem, page, mids, ext) == [stem |-> stem, page |-> page, mids |-> mids, ext |-> ext]
Path(root, dirs, name) == [root |-> root, dirs |-> dirs, name |-> name]

TEXT_EXTENSIONS == {"txt"}
VISUAL_EXTENSIONS == {"png", "pdf"}

\* Path(filename).stem keeps every suffix but the last one
HasInnerSuffix(name) == name.mids # <<>>

\* _extract_timestamp: strip "_Page_N" and what follows it, then accept a stem that
\* is exactly YYYYMMDD_HHMMSS (8 digits, "_", 6 digits); NoStamp otherwise
_extract_timestamp(name) ==
    IF name.page = 0 /\ HasInnerSuffix(name) THEN NoStamp
    ELSE IF Len(name.stem) = 2 /\ name.stem[1] >= 10000000 /\ name.stem[1] <= 99999999
              /\ name.stem[2] >= 0 /\ name.stem[2] <= 999999
         THEN name.stem
         ELSE NoStamp

\* ".triaged." in path.name
IsTriagedName(name) == \E i \in 1..Len(name.mids) : name.mids[i] = "triaged"

\* glob("*.triaged.txt")
MatchesTriagedGlob(name) ==
    name.ext = "txt" /\ name.mids # <<>> /\ name.mids[Len(name.mids)] = "triaged"

Exists(p) == p \in DOMAIN fs
Mtime(p) == fs[p]

\* directory.glob(pattern): the files directly inside root/dirs
FilesIn(root, dirs) == {p \in DOMAIN fs : p.root = root /\ p.dirs = dirs}

\* order of sorted(paths) inside one directory: by the characters of the name
\* ("." sorts before "_", so the unpaged name precedes its pages)
NameKey(name) ==
    <<IF Len(name.stem) >= 1 THEN name.stem[1] ELSE 0,
      IF Len(name.stem) >= 2 THEN name.stem[2] ELSE 0,
      IF Len(name.stem) >= 3 THEN name.stem[3] ELSE 0,
      name.page,
      Len(name.mids),
      IF name.ext = "pdf" THEN 0 ELSE IF name.ext = "png" THEN 1 ELSE 2>>

RECURSIVE KeyLess(_, _, _)
KeyLess(a, b, i) ==
    IF i > Len(a) THEN FALSE
    ELSE IF a[i] < b[i] THEN TRUE
    ELSE IF a[i] > b[i] THEN FALSE
    ELSE KeyLess(a, b, i + 1)

PathLess(p, q) == KeyLess(NameKey(p.name), NameKey(q.name), 1)

\* sorted(S, reverse=True)
RECURSIVE SortedReverse(_)
SortedReverse(S) ==
    IF S = {} THEN <<>>
    ELSE LET m == CHOOSE x \in S : \A y \in S \ {x} : PathLess(y, x)
         IN  <<m>> \o SortedReverse(S \ {m})

-----------------------------------------------------------------------------
(* Configuration: config.py *)

USB_INPUT_DIR == 1      \* the USB / mounted device root
LOCAL_INPUT_DIR == 2    \* the local hard drive root

\* get_primary_input_directory(): USB if available, else the local input directory;
\* 0 stands for the ValueError raised when neither is available
get_primary_input_directory ==
    IF input_dirs = <<>> THEN 0 ELSE input_dirs[1]

-----------------------------------------------------------------------------
(* Reconciliation: files.py, USB / local directories *)

DailyAnalysisName(d) == Name(strftime_dmY(d), 0, <<"triaged">>, "txt")
RawNotesName(timestamp) == Name(timestamp, 0, <<"raw_notes">>, "txt")

\* the analysis path the daily listing tests for a note: notes_path.parent / "daily" / DD_MM_YYYY.triaged.txt
AnalysisPathOf(notes_path, ts_date) ==
    Path(notes_path.root, notes_path.dirs \o <<"daily">>, DailyAnalysisName(ts_date))

RawNotesPathOf(notes_path, timestamp) ==
    Path(notes_path.root, notes_path.dirs, RawNotesName(timestamp))

\* variant: the sidecar of a visual file is not compared
needs_reanalysis_source_only(notes_path, analysis_path) ==
    IF ~Exists(analysis_path) THEN FALSE
    ELSE Mtime(notes_path) > Mtime(analysis_path)

\* _needs_reanalysis_usb(notes_path, analysis_path)
_needs_reanalysis_usb(notes_path, analysis_path) ==
    IF ~Exists(analysis_path) THEN FALSE
    ELSE IF Mtime(notes_path) > Mtime(analysis_path) THEN TRUE
    ELSE IF notes_path.name.ext \in VISUAL_EXTENSIONS
              /\ _extract_timestamp(notes_path.name) # NoStamp
              /\ Exists(RawNotesPathOf(notes_path, _extract_timestamp(notes_path.name)))
              /\ Mtime(RawNotesPathOf(notes_path, _extract_timestamp(notes_path.name)))
                     > Mtime(analysis_path)
         THEN TRUE
         ELSE FALSE

SearchExtensions(file_preference) ==
    IF file_preference = "txt" THEN TEXT_EXTENSIONS ELSE VISUAL_EXTENSIONS

\* variant: one iteration of the loop without the seen_timestamps test
ItemFor_unseen(notes_path, seen_timestamps) ==
    LET timestamp == _extract_timestamp(notes_path.name)
        ts_date == strptime_Ymd(timestamp[1])
        analysis_path == AnalysisPathOf(notes_path, ts_date)
        raw_notes_path == RawNotesPathOf(notes_path, timestamp)
    IN  IF IsTriagedName(notes_path.name) THEN <<>>
        ELSE IF timestamp = NoStamp THEN <<>>
        ELSE IF ts_date = NoDate THEN <<>>
        ELSE IF ~Exists(analysis_path) \/ _needs_reanalysis_usb(notes_path, analysis_path)
             THEN IF notes_path.name.ext \in VISUAL_EXTENSIONS
                  THEN IF Exists(raw_notes_path)
                       THEN <<[notes_path |-> notes_path, content |-> raw_notes_path,
                               file_date |-> ts_date, timestamp |-> timestamp]>>
                       ELSE <<>>
                  ELSE <<[notes_path |-> notes_path, content |-> notes_path,
                          file_date |-> ts_date, timestamp |-> timestamp]>>
        ELSE <<>>

\* variant: a visual file without sidecar is included, its text taken from the file
ItemFor_extracting(notes_path, seen_timestamps) ==
    LET timestamp == _extract_timestamp(notes_path.name)
        ts_date == strptime_Ymd(timestamp[1])
        analysis_path == AnalysisPathOf(notes_path, ts_date)
        raw_notes_path == RawNotesPathOf(notes_path, timestamp)
    IN  IF IsTriagedName(notes_path.name) THEN <<>>
        ELSE IF timestamp = NoStamp THEN <<>>
        ELSE IF timestamp \in seen_timestamps THEN <<>>
        ELSE IF ts_date = NoDate THEN <<>>
        ELSE IF ~Exists(analysis_path) \/ _needs_reanalysis_usb(notes_path, analysis_path)
             THEN IF notes_path.name.ext \in VISUAL_EXTENSIONS /\ Exists(raw_notes_path)
                  THEN <<[notes_path |-> notes_path, content |-> raw_notes_path,
                          file_date |-> ts_date, timestamp |-> timestamp]>>
                  ELSE <<[notes_path |-> notes_path, content |-> notes_path,
                          file_date |-> ts_date, timestamp |-> timestamp]>>
        ELSE <<>>

\* one iteration of the loop over all_files (files.py 267-326): the item appended for
\* notes_path, or <<>> when the file is skipped
ItemFor(notes_path, seen_timestamps) ==
    LET timestamp == _extract_timestamp(notes_path.name)
        ts_date == strptime_Ymd(timestamp[1])
        analysis_path == AnalysisPathOf(notes_path, ts_date)
        raw_notes_path == RawNotesPathOf(notes_path, timestamp)
    IN  IF IsTriagedName(notes_path.name) THEN <<>>
        ELSE IF timestamp = NoStamp THEN <<>>
        ELSE IF timestamp \in seen_timestamps THEN <<>>
        ELSE IF ts_date = NoDate THEN <<>>
        ELSE IF ~Exists(analysis_path) \/ _needs_reanalysis_usb(notes_path, analysis_path)
             THEN IF notes_path.name.ext \in VISUAL_EXTENSIONS
                  THEN IF Exists(raw_notes_path)
                       THEN <<[notes_path |-> notes_path, content |-> raw_notes_path,
                               file_date |-> ts_date, timestamp |-> timestamp]>>
                       ELSE <<>>
                  ELSE <<[notes_path |-> notes_path, content |-> notes_path,
                          file_date |-> ts_date, timestamp |-> timestamp]>>
        ELSE <<>>

RECURSIVE ScanFiles(_, _, _)
ScanFiles(all_files, seen_timestamps, unanalyzed) ==
    IF all_files = <<>> THEN [seen |-> seen_timestamps, acc |-> unanalyzed]
    ELSE LET item == ItemFor(Head(all_files), seen_timestamps)
         IN  ScanFiles(Tail(all_files),
                       IF item = <<>> THEN seen_timestamps
                       ELSE seen_timestamps \cup {item[1].timestamp},
                       unanalyzed \o item)

\* variant: seen_timestamps starts empty in every input directory
RECURSIVE ScanRoots_per_root(_, _, _, _)
ScanRoots_per_root(dirs, file_preference, seen_timestamps, unanalyzed) ==
    IF dirs = <<>> THEN unanalyzed
    ELSE LET base_dir == Head(dirs)
             all_files == SortedReverse({p \in FilesIn(base_dir, <<>>) :
                                            p.name.ext \in SearchExtensions(file_preference)})
             r == ScanFiles(all_files, {}, unanalyzed)
         IN  ScanRoots_per_root(Tail(dirs), file_preference, r.seen, r.acc)

RECURSIVE ScanRoots(_, _, _, _)
ScanRoots(dirs, file_preference, seen_timestamps, unanalyzed) ==
    IF dirs = <<>> THEN unanalyzed
    ELSE LET base_dir == Head(dirs)
             all_files == SortedReverse({p \in FilesIn(base_dir, <<>>) :
                                            p.name.ext \in SearchExtensions(file_preference)})
             r == ScanFiles(all_files, seen_timestamps, unanalyzed)
         IN  ScanRoots(Tail(dirs), file_preference, r.seen, r.acc)

\* variant: an empty result is returned when input directories exist
load_all_returning_empty(file_preference) ==
    IF input_dirs = <<>> THEN [raised |-> TRUE, items |-> <<>>]
    ELSE [raised |-> FALSE, items |-> ScanRoots(input_dirs, file_preference, {}, <<>>)]

\* _load_all_unanalyzed_task_notes_usb("daily", file_preference):
\* [raised |-> TRUE] for FileNotFoundError, else the list of items
load_all_unanalyzed_task_notes(file_preference) ==
    IF input_dirs = <<>> THEN [raised |-> TRUE, items |-> <<>>]
    ELSE LET unanalyzed == ScanRoots(input_dirs, file_preference, {}, <<>>)
         IN  IF unanalyzed = <<>> THEN [raised |-> TRUE, items |-> <<>>]
             ELSE [raised |-> FALSE, items |-> unanalyzed]

\* _load_task_notes_usb("daily", file_preference): the first item found, in root order
\* and newest name first; no deduplication is needed for a single result
RECURSIVE FirstItem(_, _)
FirstItem(dirs, file_preference) ==
    IF dirs = <<>> THEN [raised |-> TRUE, items |-> <<>>]
    ELSE LET all_files == SortedReverse({p \in FilesIn(Head(dirs), <<>>) :
                                            p.name.ext \in SearchExtensions(file_preference)})
             r == ScanFiles(all_files, {}, <<>>)
         IN  IF r.acc # <<>> THEN [raised |-> FALSE, items |-> <<r.acc[1]>>]
             ELSE FirstItem(Tail(dirs), file_preference)

load_task_notes(file_preference) == FirstItem(input_dirs, file_preference)

\* _save_analysis_usb(analysis, input_path, notes_type): the path written
_save_analysis_usb(input_path, notes_type) ==
    LET timestamp == _extract_timestamp(input_path.name)
        ts_date == strptime_Ymd(timestamp[1])
        date_str == IF ts_date = NoDate THEN <<timestamp[1]>>
                    ELSE IF notes_type = "monthly" THEN strftime_mY(ts_date)
                    ELSE IF notes_type = "annual" THEN strftime_Y(ts_date)
                    ELSE strftime_dmY(ts_date)
        output_filename ==
            IF timestamp # NoStamp
            THEN Name(date_str, 0, <<"triaged">>, "txt")
            ELSE Name(input_path.name.stem, input_path.name.page,
                      input_path.name.mids \o <<"triaged">>, "txt")
    IN  Path(input_path.root, input_path.dirs \o <<notes_type>>, output_filename)

-----------------------------------------------------------------------------
(* Temporal promotion scheduler: files.py *)

\* the records a find function lists: glob("*.triaged.txt") in primary/<subdir>, keeping
\* the files whose stem.split(".")[0] parses (a page suffix makes parsing fail)
RecordsIn(root, subdir) ==
    {p \in FilesIn(root, <<subdir>>) : MatchesTriagedGlob(p.name) /\ p.name.page = 0}

\* _get_week_boundaries(date): (monday_start, friday_end)
_get_week_boundaries(date) ==
    LET days_since_monday == weekday(date)
        monday == date - days_since_monday
        friday == monday + 4
    IN  [start |-> monday, end |-> friday]

\* _get_month_boundaries(date): (month_start, month_end)
_get_month_boundaries(date) ==
    LET k == MonthIndexOf(date)
    IN  [start |-> StartOfMonth(k), end |-> StartOfMonth(k + 1) - 1]

\* _weekly_analysis_exists(week_start)
_weekly_analysis_exists(week_start) ==
    LET base_dir == get_primary_input_directory
    IN  IF base_dir = 0 THEN FALSE
        ELSE Exists(Path(base_dir, <<"weekly">>,
                         Name(strftime_dmY(week_start), 0, <<"triaged">>, "txt")))

\* _monthly_analysis_exists(month_start)
_monthly_analysis_exists(month_start) ==
    LET base_dir == get_primary_input_directory
    IN  IF base_dir = 0 THEN FALSE
        ELSE Exists(Path(base_dir, <<"monthly">>,
                         Name(strftime_mY(month_start), 0, <<"triaged">>, "txt")))

\* _annual_analysis_exists(year)
_annual_analysis_exists(year) ==
    LET base_dir == get_primary_input_directory
    IN  IF base_dir = 0 THEN FALSE
        ELSE Exists(Path(base_dir, <<"annual">>, Name(<<year>>, 0, <<"triaged">>, "txt")))

\* a set of periods (or years) as a list in ascending order
RECURSIVE Ascending(_)
Ascending(S) ==
    IF S = {} THEN <<>>
    ELSE LET m == CHOOSE x \in S : \A y \in S : x.start <= y.start
         IN  <<m>> \o Ascending(S \ {m})

\* the daily analysis files of the primary root whose names parse as DD_MM_YYYY
DailyRecordFiles ==
    IF get_primary_input_directory = 0 THEN {}
    ELSE {p \in RecordsIn(get_primary_input_directory, "daily") :
              strptime_dmY(p.name.stem) # NoDate}

\* variant: a week with an existing weekly analysis is not skipped
WeeksNeeding_no_skip ==
    LET analysis_files == DailyRecordFiles
        file_date(p) == strptime_dmY(p.name.stem)
        week_keys == {_get_week_boundaries(file_date(p)) : p \in analysis_files}
        dates(w) == {p \in analysis_files : _get_week_boundaries(file_date(p)) = w}
        weekday_count(w) == Cardinality({p \in dates(w) : weekday(file_date(p)) < 5})
    IN  {w \in week_keys :
            \/ weekday_count(w) >= 5
            \/ (today > w.end /\ Cardinality(dates(w)) > 0)}

\* variant: only the passing of the week is tested
WeeksNeeding_closed_only ==
    LET analysis_files == DailyRecordFiles
        file_date(p) == strptime_dmY(p.name.stem)
        week_keys == {_get_week_boundaries(file_date(p)) : p \in analysis_files}
        dates(w) == {p \in analysis_files : _get_week_boundaries(file_date(p)) = w}
    IN  {w \in week_keys :
            /\ ~_weekly_analysis_exists(w.start)
            /\ (today > w.end /\ Cardinality(dates(w)) > 0)}

\* variant: the week counts as passed on its Friday
WeeksNeeding_friday ==
    LET analysis_files == DailyRecordFiles
        file_date(p) == strptime_dmY(p.name.stem)
        week_keys == {_get_week_boundaries(file_date(p)) : p \in analysis_files}
        dates(w) == {p \in analysis_files : _get_week_boundaries(file_date(p)) = w}
        weekday_count(w) == Cardinality({p \in dates(w) : weekday(file_date(p)) < 5})
    IN  {w \in week_keys :
            /\ ~_weekly_analysis_exists(w.start)
            /\ \/ weekday_count(w) >= 5
               \/ (today >= w.end /\ Cardinality(dates(w)) > 0)}

\* _find_weeks_needing_analysis(): the weeks are listed here in ascending order (the
\* code lists them in the directory's iteration order)
WeeksNeeding ==
    LET analysis_files == DailyRecordFiles
        file_date(p) == strptime_dmY(p.name.stem)
        week_keys == {_get_week_boundaries(file_date(p)) : p \in analysis_files}
        dates(w) == {p \in analysis_files : _get_week_boundaries(file_date(p)) = w}
        weekday_count(w) == Cardinality({p \in dates(w) : weekday(file_date(p)) < 5})
    IN  {w \in week_keys :
            /\ ~_weekly_analysis_exists(w.start)
            /\ \/ weekday_count(w) >= 5
               \/ (today > w.end /\ Cardinality(dates(w)) > 0)}

_find_weeks_needing_analysis == Ascending(WeeksNeeding)

\* the weekly analysis files of the primary root whose names parse as DD_MM_YYYY
WeeklyRecordFiles ==
    IF get_primary_input_directory = 0 THEN {}
    ELSE {p \in RecordsIn(get_primary_input_directory, "weekly") :
              strptime_dmY(p.name.stem) # NoDate}

\* _find_months_needing_analysis()
MonthsNeeding ==
    LET analysis_files == WeeklyRecordFiles
        file_date(p) == strptime_dmY(p.name.stem)
        month_keys == {_get_month_boundaries(file_date(p)) : p \in analysis_files}
        dates(m) == {p \in analysis_files : _get_month_boundaries(file_date(p)) = m}
    IN  {m \in month_keys :
            /\ ~_monthly_analysis_exists(m.start)
            /\ \/ Cardinality(dates(m)) >= 4
               \/ (today > m.end /\ Cardinality(dates(m)) > 0)}

_find_months_needing_analysis == Ascending(MonthsNeeding)

\* the monthly analysis files of the primary root whose names parse as MM_YYYY
MonthlyRecordFiles ==
    IF get_primary_input_directory = 0 THEN {}
    ELSE {p \in RecordsIn(get_primary_input_directory, "monthly") :
              strptime_mY(p.name.stem) # NoDate}

\* variant: a year is returned only after it has ended
YearsNeeding_closed_only ==
    LET analysis_files == MonthlyRecordFiles
        year_of(p) == YearOf(strptime_mY(p.name.stem))
        years == {year_of(p) : p \in analysis_files}
        count(y) == Cardinality({p \in analysis_files : year_of(p) = y})
        year_end(y) == ToOrdinal(y, 12, 31)
    IN  {y \in years :
            /\ ~_annual_analysis_exists(y)
            /\ today > year_end(y) /\ count(y) > 0}

\* _find_years_needing_analysis(): sorted(years_needing_analysis)
YearsNeeding ==
    LET analysis_files == MonthlyRecordFiles
        year_of(p) == YearOf(strptime_mY(p.name.stem))
        years == {year_of(p) : p \in analysis_files}
        count(y) == Cardinality({p \in analysis_files : year_of(p) = y})
        year_end(y) == ToOrdinal(y, 12, 31)
    IN  {y \in years :
            /\ ~_annual_analysis_exists(y)
            /\ \/ count(y) >= 12
               \/ (today > year_end(y) /\ count(y) > 0)}

_find_years_needing_analysis ==
    Ascending({[start |-> y] : y \in YearsNeeding})

\* _collect_weekly_analyses_usb_for_week(week_start, week_end): the daily analyses read
\* (from every input directory, once per date) and the output path handed to save_analysis
collect_weekly_analyses_for_week(week_start, week_end) ==
    LET Dirs == {input_dirs[i] : i \in 1..Len(input_dirs)}
        InWeek(p) == /\ strptime_dmY(p.name.stem) # NoDate
                     /\ week_start <= strptime_dmY(p.name.stem)
                     /\ strptime_dmY(p.name.stem) <= week_end
        collected == {p \in UNION {RecordsIn(r, "daily") : r \in Dirs} :
                        /\ InWeek(p)
                        /\ \A i, j \in 1..Len(input_dirs) :
                              (input_dirs[j] = p.root /\ i < j)
                                  => ~Exists(Path(input_dirs[i], p.dirs, p.name))}
    IN  IF input_dirs = <<>> \/ collected = {}
        THEN [raised |-> TRUE, read |-> {}, output_path |-> <<>>]
        ELSE [raised |-> FALSE, read |-> collected,
              output_path |-> Path(get_primary_input_directory, <<"weekly">>,
                                   Name(strftime_Ymd(week_start), 0, <<"week">>, "txt"))]

\* _collect_monthly_analyses_usb_for_month(month_start, month_end)
collect_monthly_analyses_for_month(month_start, month_end) ==
    LET collected == {p \in WeeklyRecordFiles :
                        /\ month_start <= strptime_dmY(p.name.stem)
                        /\ strptime_dmY(p.name.stem) <= month_end}
    IN  IF get_primary_input_directory = 0 \/ collected = {}
        THEN [raised |-> TRUE, read |-> {}, output_path |-> <<>>]
        ELSE [raised |-> FALSE, read |-> collected,
              output_path |-> Path(get_primary_input_directory, <<"monthly">>,
                                   Name(strftime_mY(month_start), 0, <<"month">>, "txt"))]

\* _collect_annual_analyses_usb_for_year(year)
collect_annual_analyses_for_year(year) ==
    LET collected == {p \in MonthlyRecordFiles : YearOf(strptime_mY(p.name.stem)) = year}
    IN  IF get_primary_input_directory = 0 \/ collected = {}
        THEN [raised |-> TRUE, read |-> {}, output_path |-> <<>>]
        ELSE [raised |-> FALSE, read |-> collected,
              output_path |-> Path(get_primary_input_directory, <<"annual">>,
                                   Name(<<year>>, 0, <<"annual">>, "txt"))]

-----------------------------------------------------------------------------
(* The files of the model *)

Monday1 == ToOrdinal(2025, 12, 22)      \* Monday 2025-12-22
Monday2 == ToOrdinal(2025, 12, 29)      \* Monday 2025-12-29, work-week ends Friday 2026-01-02
RunDay == ToOrdinal(2026, 1, 3)         \* the day the pipeline runs: Saturday 2026-01-03

StampA == <<20251229, 90000>>           \* 20251229_090000
StampB == <<20251229, 100000>>          \* 20251229_100000, the same day

\* source files the environment may capture
NoteFiles ==
    {Path(USB_INPUT_DIR, <<>>, Name(StampA, 0, <<>>, "txt")),
     Path(USB_INPUT_DIR, <<>>, Name(StampA, 1, <<>>, "png")),
     Path(USB_INPUT_DIR, <<>>, Name(StampA, 2, <<>>, "png")),
     Path(USB_INPUT_DIR, <<>>, Name(StampB, 0, <<>>, "txt")),
     Path(LOCAL_INPUT_DIR, <<>>, Name(StampA, 0, <<>>, "txt"))}

\* rollup records that lie in the primary root before the pipeline first runs
\* (kept from an earlier installation)
ImportNames ==
    {[dirs |-> <<"weekly">>, name |-> Name(strftime_dmY(Monday1), 0, <<"triaged">>, "txt")],
     [dirs |-> <<"monthly">>, name |-> Name(<<11, 2025>>, 0, <<"triaged">>, "txt")]}

Roots == {input_dirs[i] : i \in 1..Len(input_dirs)}

IsSource(p) == p.dirs = <<>> /\ p.name.mids = <<>>
IsSidecar(p) == p.dirs = <<>> /\ p.name.mids = <<"raw_notes">>

\* the directories the program lists or tests: a root and its daily, weekly, monthly
\* and annual directories.  A file written anywhere else is never read again; it is
\* recorded in `written` and left out of fs.
IsRead(p) == p.dirs \in {<<>>, <<"daily">>, <<"weekly">>, <<"monthly">>, <<"annual">>}

\* the mtimes the program compares are those of source files, sidecars and daily
\* analyses (_needs_reanalysis_usb); every other mtime is kept at 0
MtimeRead(p) == p.dirs \in {<<>>, <<"daily">>}

\* path.write_text(...) / copy: the file exists afterwards with the current mtime
Write(f, p) ==
    IF IsRead(p)
    THEN [q \in DOMAIN f \cup {p} |->
             IF q = p THEN (IF MtimeRead(p) THEN clock ELSE 0) ELSE f[q]]
    ELSE f

Granularities == {"daily", "weekly", "monthly", "annual"}
ZeroCounts == [g \in Granularities |-> [successful |-> 0, failed |-> 0]]
Bump(c, g, ok) ==
    IF ok THEN [c EXCEPT ![g].successful = @ + 1] ELSE [c EXCEPT ![g].failed = @ + 1]

SummaryLine(g) == [gran |-> g, successful |-> counts[g].successful, failed |-> counts[g].failed]

max_workers == 5        \* ThreadPoolExecutor(max_workers=5)

-----------------------------------------------------------------------------
(* Initial state *)

RunIdle ==
    /\ pc = "idle"
    /\ entry = "none"
    /\ pref = "none"
    /\ unanalyzed_files = <<>>
    /\ futures = <<>>
    /\ weeks_to_analyze = <<>>
    /\ months_to_analyze = <<>>
    /\ years_to_analyze = <<>>
    /\ idx = 0
    /\ counts = ZeroCounts
    /\ out = <<>>
    /\ exit_code = -1
    /\ calls = <<>>
    /\ written = {}

Init ==
    /\ clock = 0
    /\ today = RunDay
    /\ input_dirs \in {<<USB_INPUT_DIR, LOCAL_INPUT_DIR>>, <<LOCAL_INPUT_DIR>>, <<>>}
    /\ fs = [p \in {Path(get_primary_input_directory, n.dirs, n.name) :
                       n \in IF input_dirs = <<>> THEN {} ELSE ImportNames} |-> 0]
    /\ RunIdle

runvars == <<pc, entry, pref, unanalyzed_files, futures, weeks_to_analyze, months_to_analyze,
             years_to_analyze, idx, counts, out, exit_code, calls, written>>

-----------------------------------------------------------------------------
(* Environment: capture, edits, conversion *)

\* a new source file is captured in an available root
Capture(p) ==
    /\ pc = "idle"
    /\ p \in NoteFiles
    /\ p.root \in Roots
    /\ ~Exists(p)
    /\ Cardinality({q \in DOMAIN fs : IsSource(q)}) < MaxNotes
    /\ fs' = Write(fs, p)
    /\ UNCHANGED <<clock, today, input_dirs, runvars>>

\* a source file or a sidecar is edited: its mtime becomes the current time.  An mtime
\* is read only by _needs_reanalysis_usb and only once the analysis exists, so edits
\* made before that leave nothing the program reads
Touch(p) ==
    /\ pc = "idle"
    /\ Exists(p)
    /\ IsSource(p) \/ IsSidecar(p)
    /\ fs[p] < clock
    /\ Len(p.name.stem) = 2
    /\ Exists(AnalysisPathOf(p, strptime_Ymd(p.name.stem[1])))
    /\ fs' = Write(fs, p)
    /\ UNCHANGED <<clock, today, input_dirs, runvars>>

\* the Sync / Convert step leaves the sidecar <timestamp>.raw_notes.txt of a visual file
\* next to it
Convert(p) ==
    /\ pc = "idle"
    /\ Exists(p)
    /\ IsSource(p)
    /\ p.name.ext \in VISUAL_EXTENSIONS
    /\ _extract_timestamp(p.name) # NoStamp
    /\ ~Exists(RawNotesPathOf(p, _extract_timestamp(p.name)))
    /\ fs' = Write(fs, RawNotesPathOf(p, _extract_timestamp(p.name)))
    /\ UNCHANGED <<clock, today, input_dirs, runvars>>

-----------------------------------------------------------------------------
(* The pipeline: cli.main and run_triage_pipeline *)

\* cli.py 66-95 and logic.py 46-70: the daily listing and the submission of one task
\* per item.  The CLI lets FileNotFoundError reach its handler (exit 1); the UI catches
\* it and continues with no items.  The UI always lists with preference "png".
StartRun(e, fp) ==
    /\ pc = "idle"
    /\ e \in {"cli", "ui"}
    /\ fp \in {"png", "txt"}
    /\ e = "ui" => fp = "png"
    /\ LET r == load_all_unanalyzed_task_notes(fp)
       IN  /\ unanalyzed_files' = r.items
           /\ futures' = [i \in 1..Len(r.items) |-> "queued"]
           /\ IF r.raised /\ e = "cli"
              THEN pc' = "done" /\ exit_code' = 1
              ELSE pc' = "daily" /\ exit_code' = -1
    /\ entry' = e
    /\ pref' = fp
    /\ weeks_to_analyze' = <<>>
    /\ months_to_analyze' = <<>>
    /\ years_to_analyze' = <<>>
    /\ idx' = 0
    /\ counts' = ZeroCounts
    /\ out' = <<>>
    /\ calls' = <<>>
    /\ written' = {}
    /\ UNCHANGED <<fs, clock, today, input_dirs>>

\* generations that have failed so far in this run
Failures == Cardinality({i \in DOMAIN futures : futures[i] = "failed"})
                + counts["weekly"].failed + counts["monthly"].failed + counts["annual"].failed

Running == {i \in DOMAIN futures : futures[i] = "running"}
Queued == {i \in DOMAIN futures : futures[i] = "queued"}
Finished == {i \in DOMAIN futures : futures[i] \in {"succeeded", "failed"}}

\* variant: every submitted task gets a thread of its own
WorkerStart_unbounded(i) ==
    /\ pc = "daily"
    /\ i \in Queued
    /\ \A j \in Queued : i <= j
    /\ futures' = [futures EXCEPT ![i] = "running"]
    /\ calls' = Append(calls, [gran |-> "daily", key |-> unanalyzed_files[i].timestamp])
    /\ UNCHANGED <<fs, clock, today, input_dirs, pc, entry, pref, unanalyzed_files,
                   weeks_to_analyze, months_to_analyze, years_to_analyze, idx, counts, out,
                   exit_code, written>>

\* a pool thread takes the oldest queued task and enters analyze_single_file:
\* analyze_tasks is called (cli.py 41)
WorkerStart(i) ==
    /\ pc = "daily"
    /\ i \in Queued
    /\ \A j \in Queued : i <= j
    /\ Cardinality(Running) < max_workers
    /\ futures' = [futures EXCEPT ![i] = "running"]
    /\ calls' = Append(calls, [gran |-> "daily", key |-> unanalyzed_files[i].timestamp])
    /\ UNCHANGED <<fs, clock, today, input_dirs, pc, entry, pref, unanalyzed_files,
                   weeks_to_analyze, months_to_analyze, years_to_analyze, idx, counts, out,
                   exit_code, written>>

\* variant: a failure cancels the tasks still queued
WorkerFinish_abort(i, ok) ==
    /\ pc = "daily"
    /\ i \in Running
    /\ ok \in BOOLEAN
    /\ ~ok => Failures < MaxFailures
    /\ LET output_path == _save_analysis_usb(unanalyzed_files[i].notes_path, "daily")
       IN  IF ok
           THEN /\ fs' = Write(fs, output_path)
                /\ written' = written \cup {output_path}
           ELSE UNCHANGED <<fs, written>>
    /\ futures' = [j \in DOMAIN futures |->
                      IF j = i THEN (IF ok THEN "succeeded" ELSE "failed")
                      ELSE IF ~ok /\ futures[j] = "queued" THEN "failed"
                      ELSE futures[j]]
    /\ counts' = Bump(counts, "daily", ok)
    /\ UNCHANGED <<clock, today, input_dirs, pc, entry, pref, unanalyzed_files,
                   weeks_to_analyze, months_to_analyze, years_to_analyze, idx, out,
                   exit_code, calls>>

\* analyze_single_file returns (cli.py 41-45): on success the analysis was saved, on an
\* exception nothing was written; the main thread counts the result (cli.py 98-114)
WorkerFinish(i, ok) ==
    /\ pc = "daily"
    /\ i \in Running
    /\ ok \in BOOLEAN
    /\ ~ok => Failures < MaxFailures
    /\ LET output_path == _save_analysis_usb(unanalyzed_files[i].notes_path, "daily")
       IN  IF ok
           THEN /\ fs' = Write(fs, output_path)
                /\ written' = written \cup {output_path}
           ELSE UNCHANGED <<fs, written>>
    /\ futures' = [futures EXCEPT ![i] = IF ok THEN "succeeded" ELSE "failed"]
    /\ counts' = Bump(counts, "daily", ok)
    /\ UNCHANGED <<clock, today, input_dirs, pc, entry, pref, unanalyzed_files,
                   weeks_to_analyze, months_to_analyze, years_to_analyze, idx, out,
                   exit_code, calls>>

\* cli.py 127-128, logic.py 91-95: the weekly listing
ListWeeks ==
    /\ weeks_to_analyze' = _find_weeks_needing_analysis
    /\ UNCHANGED <<months_to_analyze, years_to_analyze>>

\* cli.py 171-172, logic.py 118-122: the monthly listing
ListMonths ==
    /\ months_to_analyze' = _find_months_needing_analysis
    /\ UNCHANGED <<weeks_to_analyze, years_to_analyze>>

\* cli.py 215-216, logic.py 145-149: the annual listing
ListYears ==
    /\ years_to_analyze' = _find_years_needing_analysis
    /\ UNCHANGED <<weeks_to_analyze, months_to_analyze>>

\* cli.py 251-253: exit 1 if a daily analysis failed, else the process ends with 0;
\* logic.py 167-168: the UI returns its results
Finish ==
    /\ exit_code' = IF entry = "cli" THEN (IF counts["daily"].failed > 0 THEN 1 ELSE 0)
                    ELSE exit_code
    /\ UNCHANGED <<idx, weeks_to_analyze, months_to_analyze, years_to_analyze>>

\* the run moves on: the listing of the next phase is taken straight after the summary
\* of the phase before it, and the run ends straight after the annual summary
EnterPhase(next) ==
    /\ pc' = next
    /\ IF next = "weekly" THEN idx' = 1 /\ ListWeeks /\ UNCHANGED exit_code
       ELSE IF next = "monthly" THEN idx' = 1 /\ ListMonths /\ UNCHANGED exit_code
       ELSE IF next = "annual" THEN idx' = 1 /\ ListYears /\ UNCHANGED exit_code
       ELSE Finish

\* variant: the weekly listing does not wait for the pool to drain
DailySummary_early ==
    /\ pc = "daily"
    /\ out' = Append(out, SummaryLine("daily"))
    /\ EnterPhase("weekly")
    /\ UNCHANGED <<fs, clock, today, input_dirs, entry, pref, unanalyzed_files, futures,
                   counts, calls, written>>

\* cli.py 116-128, logic.py 88-95: the pool has drained, the daily summary is printed
\* and the weeks to analyse are listed
DailySummary ==
    /\ pc = "daily"
    /\ Finished = DOMAIN futures
    /\ out' = Append(out, SummaryLine("daily"))
    /\ EnterPhase("weekly")
    /\ UNCHANGED <<fs, clock, today, input_dirs, entry, pref, unanalyzed_files, futures,
                   counts, calls, written>>

\* variant: a failed period ends its phase
RollupStep_abort(g, key, c, ok) ==
    /\ ~ok => ~c.raised /\ Failures < MaxFailures
    /\ IF c.raised
       THEN /\ counts' = Bump(counts, g, FALSE)
            /\ UNCHANGED <<fs, calls, written>>
       ELSE /\ calls' = Append(calls, [gran |-> g, key |-> key])
            /\ counts' = Bump(counts, g, ok)
            /\ IF ok
               THEN /\ fs' = Write(fs, _save_analysis_usb(c.output_path, g))
                    /\ written' = written \cup {_save_analysis_usb(c.output_path, g)}
               ELSE UNCHANGED <<fs, written>>
    /\ idx' = IF ok /\ ~c.raised THEN idx + 1
              ELSE Len(IF g = "weekly" THEN weeks_to_analyze
                       ELSE IF g = "monthly" THEN months_to_analyze
                       ELSE years_to_analyze) + 1
    /\ UNCHANGED <<clock, today, input_dirs, pc, entry, pref, unanalyzed_files, futures,
                   weeks_to_analyze, months_to_analyze, years_to_analyze, out, exit_code>>

\* variant: a period whose generation failed is tried again
RollupStep_retry(g, key, c, ok) ==
    /\ ~ok => ~c.raised /\ Failures < MaxFailures
    /\ IF c.raised
       THEN /\ counts' = Bump(counts, g, FALSE)
            /\ UNCHANGED <<fs, calls, written>>
       ELSE /\ calls' = Append(calls, [gran |-> g, key |-> key])
            /\ counts' = Bump(counts, g, ok)
            /\ IF ok
               THEN /\ fs' = Write(fs, _save_analysis_usb(c.output_path, g))
                    /\ written' = written \cup {_save_analysis_usb(c.output_path, g)}
               ELSE UNCHANGED <<fs, written>>
    /\ idx' = IF ok \/ c.raised THEN idx + 1 ELSE idx
    /\ UNCHANGED <<clock, today, input_dirs, pc, entry, pref, unanalyzed_files, futures,
                   weeks_to_analyze, months_to_analyze, years_to_analyze, out, exit_code>>

\* one iteration of a rollup loop (cli.py 139-159, 183-203, 227-245): collect, generate,
\* save; an exception at any of the three counts the period as failed
RollupStep(g, key, c, ok) ==
    /\ ~ok => ~c.raised /\ Failures < MaxFailures
    /\ IF c.raised
       THEN /\ counts' = Bump(counts, g, FALSE)
            /\ UNCHANGED <<fs, calls, written>>
       ELSE /\ calls' = Append(calls, [gran |-> g, key |-> key])
            /\ counts' = Bump(counts, g, ok)
            /\ IF ok
               THEN /\ fs' = Write(fs, _save_analysis_usb(c.output_path, g))
                    /\ written' = written \cup {_save_analysis_usb(c.output_path, g)}
               ELSE UNCHANGED <<fs, written>>
    /\ idx' = idx + 1
    /\ UNCHANGED <<clock, today, input_dirs, pc, entry, pref, unanalyzed_files, futures,
                   weeks_to_analyze, months_to_analyze, years_to_analyze, out, exit_code>>

\* variant: the summary is printed whether or not the phase had periods
RollupSummary_always(g, periods, next) ==
    /\ out' = Append(out, SummaryLine(g))
    /\ EnterPhase(next)
    /\ UNCHANGED <<fs, clock, today, input_dirs, entry, pref, unanalyzed_files, futures,
                   counts, calls, written>>

\* the end of a rollup loop: the summary is printed only if the phase had periods, and
\* the next phase is entered
RollupSummary(g, periods, next) ==
    /\ out' = IF periods # <<>> THEN Append(out, SummaryLine(g)) ELSE out
    /\ EnterPhase(next)
    /\ UNCHANGED <<fs, clock, today, input_dirs, entry, pref, unanalyzed_files, futures,
                   counts, calls, written>>

WeeklyStep(ok) ==
    /\ pc = "weekly"
    /\ idx <= Len(weeks_to_analyze)
    /\ ok \in BOOLEAN
    /\ RollupStep("weekly", <<weeks_to_analyze[idx].start>>,
                  collect_weekly_analyses_for_week(weeks_to_analyze[idx].start,
                                                   weeks_to_analyze[idx].end), ok)

WeeklySummary ==
    /\ pc = "weekly"
    /\ idx > Len(weeks_to_analyze)
    /\ RollupSummary("weekly", weeks_to_analyze, "monthly")

MonthlyStep(ok) ==
    /\ pc = "monthly"
    /\ idx <= Len(months_to_analyze)
    /\ ok \in BOOLEAN
    /\ RollupStep("monthly", <<months_to_analyze[idx].start>>,
                  collect_monthly_analyses_for_month(months_to_analyze[idx].start,
                                                     months_to_analyze[idx].end), ok)

MonthlySummary ==
    /\ pc = "monthly"
    /\ idx > Len(months_to_analyze)
    /\ RollupSummary("monthly", months_to_analyze, "annual")

AnnualStep(ok) ==
    /\ pc = "annual"
    /\ idx <= Len(years_to_analyze)
    /\ ok \in BOOLEAN
    /\ RollupStep("annual", <<years_to_analyze[idx].start>>,
                  collect_annual_analyses_for_year(years_to_analyze[idx].start), ok)

AnnualSummary ==
    /\ pc = "annual"
    /\ idx > Len(years_to_analyze)
    /\ RollupSummary("annual", years_to_analyze, "done")

AllSucceeded == \A g \in Granularities : counts[g].failed = 0

\* time passes between runs: what is written after a run is later than what the run
\* wrote.  mtimes are only compared with the mtime of a daily analysis, so the clock
\* moves on when a daily analysis carries the current time
Later ==
    IF clock < MaxClock /\ \E p \in DOMAIN fs : p.dirs = <<"daily">> /\ fs[p] = clock
    THEN clock + 1
    ELSE clock

\* the run is over; the next one starts afresh
Return ==
    /\ pc = "done"
    /\ pc' = "idle"
    /\ entry' = "none"
    /\ pref' = "none"
    /\ unanalyzed_files' = <<>>
    /\ futures' = <<>>
    /\ weeks_to_analyze' = <<>>
    /\ months_to_analyze' = <<>>
    /\ years_to_analyze' = <<>>
    /\ idx' = 0
    /\ counts' = ZeroCounts
    /\ out' = <<>>
    /\ exit_code' = -1
    /\ calls' = <<>>
    /\ written' = {}
    /\ clock' = Later
    /\ UNCHANGED <<fs, today, input_dirs>>

Next ==
    \/ \E p \in NoteFiles : Capture(p)
    \/ \E p \in DOMAIN fs : Touch(p)
    \/ \E p \in DOMAIN fs : Convert(p)
    \/ \E e \in {"cli", "ui"}, fp \in {"png", "txt"} : StartRun(e, fp)
    \/ \E i \in DOMAIN futures : WorkerStart(i)
    \/ \E i \in DOMAIN futures, ok \in BOOLEAN : WorkerFinish(i, ok)
    \/ DailySummary
    \/ \E ok \in BOOLEAN : WeeklyStep(ok)
    \/ WeeklySummary
    \/ \E ok \in BOOLEAN : MonthlyStep(ok)
    \/ MonthlySummary
    \/ \E ok \in BOOLEAN : AnnualStep(ok)
    \/ AnnualSummary
    \/ Return

Spec == Init /\ [][Next]_vars

-----------------------------------------------------------------------------
(* The promotion scheduler on its own: the find functions called on the records that
   are present, while records accumulate and days pass *)

SchedFirstDay == ToOrdinal(2025, 12, 31)    \* Wednesday 2025-12-31

\* the days a daily analysis may be dated: Friday 2025-12-26 and
\* Monday 2025-12-29 .. the last day reached
DailyDays == {Monday1 + 4} \cup (Monday2..(SchedFirstDay + MaxDays))

\* the Mondays of December 2025
DecemberMondays == {ToOrdinal(2025, 12, 1) + 7 * i : i \in 0..4}

\* analysis records that may appear: daily ones in either root, rollup records in the
\* primary root at the paths the existence checks test
SchedRecords ==
    {Path(USB_INPUT_DIR, <<"daily">>, DailyAnalysisName(d)) : d \in DailyDays}
    \cup {Path(LOCAL_INPUT_DIR, <<"daily">>, DailyAnalysisName(Monday2))}
    \cup {Path(USB_INPUT_DIR, <<"weekly">>, Name(strftime_dmY(d), 0, <<"triaged">>, "txt")) :
             d \in DecemberMondays}
    \cup {Path(USB_INPUT_DIR, <<"monthly">>, Name(<<m, 2025>>, 0, <<"triaged">>, "txt")) :
             m \in {11, 12}}
    \cup {Path(USB_INPUT_DIR, <<"annual">>, Name(<<2025>>, 0, <<"triaged">>, "txt"))}

InitSched ==
    /\ fs = <<>>
    /\ clock = 0
    /\ today = SchedFirstDay
    /\ input_dirs = <<USB_INPUT_DIR, LOCAL_INPUT_DIR>>
    /\ RunIdle

\* an analysis record appears; a daily analysis is never dated after today
AddRecord(p) ==
    /\ pc = "idle"
    /\ p \in SchedRecords
    /\ ~Exists(p)
    /\ Cardinality(DOMAIN fs) < MaxRecords
    /\ p.dirs = <<"daily">> => strptime_dmY(p.name.stem) <= today
    /\ fs' = Write(fs, p)
    /\ UNCHANGED <<clock, today, input_dirs, runvars>>

AdvanceDay ==
    /\ pc = "idle"
    /\ today < SchedFirstDay + MaxDays
    /\ today' = today + 1
    /\ UNCHANGED <<fs, clock, input_dirs, runvars>>

schedrest == <<fs, clock, today, input_dirs, entry, pref, unanalyzed_files, futures, idx,
               counts, out, exit_code, calls, written>>

CallFindWeeks ==
    /\ pc = "idle"
    /\ weeks_to_analyze' = _find_weeks_needing_analysis
    /\ pc' = "found_weeks"
    /\ UNCHANGED <<months_to_analyze, years_to_analyze, schedrest>>

CallFindMonths ==
    /\ pc = "idle"
    /\ months_to_analyze' = _find_months_needing_analysis
    /\ pc' = "found_months"
    /\ UNCHANGED <<weeks_to_analyze, years_to_analyze, schedrest>>

CallFindYears ==
    /\ pc = "idle"
    /\ years_to_analyze' = _find_years_needing_analysis
    /\ pc' = "found_years"
    /\ UNCHANGED <<weeks_to_analyze, months_to_analyze, schedrest>>

\* the caller drops the list
Forget ==
    /\ pc \in {"found_weeks", "found_months", "found_years"}
    /\ pc' = "idle"
    /\ weeks_to_analyze' = <<>>
    /\ months_to_analyze' = <<>>
    /\ years_to_analyze' = <<>>
    /\ UNCHANGED schedrest

NextSched ==
    \/ \E p \in SchedRecords : AddRecord(p)
    \/ AdvanceDay
    \/ CallFindWeeks
    \/ CallFindMonths
    \/ CallFindYears
    \/ Forget

SpecSched == InitSched /\ [][NextSched]_vars

-----------------------------------------------------------------------------
(* The pipeline on a directory that holds more notes than the pool has threads *)

\* the notes waiting in the first input directory: one text note a day from
\* Friday 2025-12-26
PoolNotes(n) ==
    {Path(USB_INPUT_DIR, <<>>,
          Name(<<strftime_Ymd(Monday1 + 4 + k)[1], 90000>>, 0, <<>>, "txt")) :
        k \in 0..(n - 1)}

InitPool ==
    /\ clock = 0
    /\ today = RunDay
    /\ input_dirs = <<USB_INPUT_DIR, LOCAL_INPUT_DIR>>
    /\ \E n \in 0..MaxTasks, I \in SUBSET ImportNames :
          fs = [p \in PoolNotes(n)
                         \cup {Path(USB_INPUT_DIR, r.dirs, r.name) : r \in I} |-> 0]
    /\ RunIdle

NextPool ==
    \/ \E e \in {"cli", "ui"}, fp \in {"png", "txt"} : StartRun(e, fp)
    \/ \E i \in DOMAIN futures : WorkerStart(i)
    \/ \E i \in DOMAIN futures, ok \in BOOLEAN : WorkerFinish(i, ok)
    \/ DailySummary
    \/ \E ok \in BOOLEAN : WeeklyStep(ok)
    \/ WeeklySummary
    \/ \E ok \in BOOLEAN : MonthlyStep(ok)
    \/ MonthlySummary
    \/ \E ok \in BOOLEAN : AnnualStep(ok)
    \/ AnnualSummary
    \/ Return

SpecPool == InitPool /\ [][NextPool]_vars

-----------------------------------------------------------------------------
(* Vocabulary of the properties *)

\* the daily listing has just returned and no worker has finished: fs is still the
\* file system the listing read
JustListed == pc \in {"daily", "done"} /\ out = <<>> /\ Finished = {}

StampOf(p) == _extract_timestamp(p.name)
DateOf(p) == IF StampOf(p) = NoStamp THEN NoDate ELSE strptime_Ymd(StampOf(p)[1])

\* the files the listing globs for a preference, and the daily sources among them
Candidates(fp) ==
    {p \in DOMAIN fs : p.root \in Roots /\ p.dirs = <<>> /\ p.name.ext \in SearchExtensions(fp)}
Sources(fp) ==
    {p \in Candidates(fp) : ~IsTriagedName(p.name) /\ StampOf(p) # NoStamp /\ DateOf(p) # NoDate}

AnalysisOf(p) == Path(p.root, <<"daily">>, Name(strftime_dmY(DateOf(p)), 0, <<"triaged">>, "txt"))
SidecarOf(p) == Path(p.root, <<>>, Name(StampOf(p), 0, <<"raw_notes">>, "txt"))
IsVisual(p) == p.name.ext \in VISUAL_EXTENSIONS
Analysed(p) == AnalysisOf(p) \in DOMAIN fs
SourceNewer(p) == Analysed(p) /\ fs[p] > fs[AnalysisOf(p)]
SidecarNewer(p) ==
    /\ IsVisual(p)
    /\ Analysed(p)
    /\ SidecarOf(p) \in DOMAIN fs
    /\ fs[SidecarOf(p)] > fs[AnalysisOf(p)]
Readable(p) == IsVisual(p) => SidecarOf(p) \in DOMAIN fs
Unprocessed(p) == Readable(p) /\ (~Analysed(p) \/ SourceNewer(p) \/ SidecarNewer(p))

IncludedPath(p) == \E i \in DOMAIN unanalyzed_files : unanalyzed_files[i].notes_path = p
ItemsOf(t) == {i \in DOMAIN unanalyzed_files : unanalyzed_files[i].timestamp = t}

Lines(g) == Cardinality({i \in DOMAIN out : out[i].gran = g})
PeriodsOf(g) ==
    IF g = "weekly" THEN weeks_to_analyze
    ELSE IF g = "monthly" THEN months_to_analyze
    ELSE years_to_analyze

-----------------------------------------------------------------------------
(* Properties of the pipeline (Spec) *)

\* a run started in this state from entry point e with preference fp makes no
\* generation call and writes no file: its daily listing is empty and, where the run
\* goes on to the rollup phases, so is every rollup listing (nothing is written in
\* between, so all four listings read this file system)
NothingLeftToDo(e, fp) ==
    /\ load_all_unanalyzed_task_notes(fp).items = <<>>
    /\ e = "ui" => /\ _find_weeks_needing_analysis = <<>>
                   /\ _find_months_needing_analysis = <<>>
                   /\ _find_years_needing_analysis = <<>>

\* the run went through all four phases and every generation succeeded
CompletedClean == pc = "done" /\ out # <<>> /\ AllSucceeded

\* C1: idempotency of the full pipeline.  When a run has gone through the four phases
\* with every generation succeeding, the same run started again with nothing changed
\* makes zero generation calls and writes zero files.
C1_Idempotent == CompletedClean => NothingLeftToDo(entry, pref)

\* C3: staleness re-trigger.  For a daily source whose analysis exists: if the source,
\* or for a visual source its sidecar, is newer than the analysis and the source can be
\* read (a visual source has its sidecar), the listing holds an item for its timestamp;
\* the source itself is listed only in that case.  A successful item overwrites the
\* analysis file the listing tested, which is then no older than the source.
C3_StalenessRetrigger ==
    /\ JustListed =>
          \A p \in Sources(pref) :
              Analysed(p) =>
                  /\ ((SourceNewer(p) \/ SidecarNewer(p)) /\ Readable(p))
                         => ItemsOf(StampOf(p)) # {}
                  /\ IncludedPath(p) => ((SourceNewer(p) \/ SidecarNewer(p)) /\ Readable(p))
    /\ \A i \in DOMAIN futures :
          futures[i] = "succeeded" =>
              LET p == unanalyzed_files[i].notes_path
              IN  /\ AnalysisOf(p) \in written
                  /\ Analysed(p)
                  /\ fs[AnalysisOf(p)] >= fs[p]

C3_Witness ==
    /\ JustListed
    /\ \E p \in Sources(pref) : SourceNewer(p) /\ IncludedPath(p)

\* C3 as stated: the source is re-included if and only if its own mtime is after the
\* analysis's
C3_SourceMtimeOnly ==
    JustListed =>
        \A p \in Sources(pref) :
            Analysed(p) =>
                /\ SourceNewer(p) => ItemsOf(StampOf(p)) # {}
                /\ ~SourceNewer(p) => ~IncludedPath(p)

\* C4: cross-root dedup.  When two input directories each hold an unprocessed source
\* with the same timestamp, the listing holds exactly one item for the timestamp and it
\* is the file of the first directory.
C4_CrossRootDedup ==
    JustListed /\ Len(input_dirs) = 2 =>
        \A p, q \in Sources(pref) :
            (/\ p.root = input_dirs[1]
             /\ q.root = input_dirs[2]
             /\ StampOf(p) = StampOf(q)
             /\ Unprocessed(p)
             /\ Unprocessed(q))
                => /\ Cardinality(ItemsOf(StampOf(p))) = 1
                   /\ \A i \in ItemsOf(StampOf(p)) :
                         unanalyzed_files[i].notes_path.root = input_dirs[1]

C4_Witness ==
    /\ JustListed
    /\ Len(input_dirs) = 2
    /\ \E p, q \in Sources(pref) :
          /\ p.root = input_dirs[1]
          /\ q.root = input_dirs[2]
          /\ StampOf(p) = StampOf(q)
          /\ Unprocessed(p)
          /\ Unprocessed(q)
          /\ IncludedPath(p)

\* the page files of one timestamp in one input directory
PagesOf(r, t) == {p \in Sources("png") : p.root = r /\ StampOf(p) = t /\ p.name.page > 0}

\* C5: page aggregation.  Page files sharing a timestamp, with their sidecar and no
\* analysis, give exactly one item for the timestamp.
C5_PageAggregation ==
    JustListed /\ pref = "png" =>
        \A p \in Sources("png") :
            (PagesOf(p.root, StampOf(p)) # {} /\ SidecarOf(p) \in DOMAIN fs /\ ~Analysed(p))
                => Cardinality(ItemsOf(StampOf(p))) = 1

C5_Witness ==
    /\ JustListed
    /\ pref = "png"
    /\ \E p \in Sources("png") :
          /\ Cardinality(PagesOf(p.root, StampOf(p))) >= 2
          /\ SidecarOf(p) \in DOMAIN fs
          /\ ~Analysed(p)
          /\ Cardinality(ItemsOf(StampOf(p))) = 1

\* C8: the CLI exits with a non-zero code if and only if a daily item failed (an input
\* directory being available).
C8_ExitCodeIffDailyFailure ==
    (pc = "done" /\ entry = "cli" /\ input_dirs # <<>>)
        => (exit_code # 0 <=> counts["daily"].failed > 0)

\* the run got past the daily listing: every UI run, and a CLI run whose listing
\* returned items
PassedListing == entry = "ui" \/ unanalyzed_files # <<>>

AllFilteredOut(fp) == \A p \in Sources(fp) : ~Unprocessed(p)

-----------------------------------------------------------------------------
(* Properties of the promotion scheduler (SpecSched) *)

\* the rollup records the existence checks look for, in the primary input directory
WeeklyRecord(week_start) ==
    Path(get_primary_input_directory, <<"weekly">>,
         Name(strftime_dmY(week_start), 0, <<"triaged">>, "txt"))
MonthlyRecord(month_start) ==
    Path(get_primary_input_directory, <<"monthly">>,
         Name(strftime_mY(month_start), 0, <<"triaged">>, "txt"))
AnnualRecord(year) ==
    Path(get_primary_input_directory, <<"annual">>, Name(<<year>>, 0, <<"triaged">>, "txt"))

\* the daily analysis of day d in the primary input directory
DailyRecord(d) == Path(get_primary_input_directory, <<"daily">>, DailyAnalysisName(d))

\* the work-weeks of the model and the daily analyses inside one (Monday .. Friday)
Mondays == {d - weekday(d) : d \in DailyDays}
WorkWeek(m) == [start |-> m, end |-> m + 4]
WeekdayRecords(m) == {d \in m..(m + 4) : DailyRecord(d) \in DOMAIN fs}
Listed(list, period) == \E i \in DOMAIN list : list[i] = period

\* C2: no double promotion.  A period whose rollup record exists is in the result of
\* no find function, whatever child analyses are present and however late it is.
C2_NoDoublePromotion ==
    /\ pc = "found_weeks" =>
          \A m \in Mondays : WeeklyRecord(m) \in DOMAIN fs
              => \A i \in DOMAIN weeks_to_analyze : weeks_to_analyze[i].start # m
    /\ pc = "found_months" =>
          \A i \in DOMAIN months_to_analyze :
              MonthlyRecord(months_to_analyze[i].start) \notin DOMAIN fs
    /\ pc = "found_years" =>
          \A i \in DOMAIN years_to_analyze :
              AnnualRecord(years_to_analyze[i].start) \notin DOMAIN fs

C2_Witness ==
    /\ pc = "found_weeks"
    /\ WeeklyRecord(Monday2) \in DOMAIN fs
    /\ Cardinality(WeekdayRecords(Monday2)) = 5
    /\ today > Monday2 + 4
    /\ ~Listed(weeks_to_analyze, WorkWeek(Monday2))

\* C6: weekly eager promotion.  A work-week with a daily analysis for each of its five
\* weekdays and no weekly record is returned once, as (Monday, Friday), before the
\* week's end as well as after it; it is the only period returned if no other week has
\* daily analyses.
C6_WeeklyEagerPromotion ==
    pc = "found_weeks" =>
        \A m \in Mondays :
            (Cardinality(WeekdayRecords(m)) = 5 /\ WeeklyRecord(m) \notin DOMAIN fs)
                => /\ Cardinality({i \in DOMAIN weeks_to_analyze :
                                      weeks_to_analyze[i] = WorkWeek(m)}) = 1
                   /\ (\A p \in DailyRecordFiles :
                          strptime_dmY(p.name.stem) \in m..(m + 6))
                         => weeks_to_analyze = <<WorkWeek(m)>>

C6_Witness ==
    /\ pc = "found_weeks"
    /\ Cardinality(WeekdayRecords(Monday2)) = 5
    /\ WeeklyRecord(Monday2) \notin DOMAIN fs
    /\ today <= Monday2 + 4
    /\ weeks_to_analyze = <<WorkWeek(Monday2)>>

\* C7: weekly closure promotion.  A work-week with at least one and fewer than five
\* daily analyses and no weekly record is returned if and only if today is after the
\* week's Friday.
C7_WeeklyClosurePromotion ==
    pc = "found_weeks" =>
        \A m \in Mondays :
            (/\ Cardinality(WeekdayRecords(m)) >= 1
             /\ Cardinality(WeekdayRecords(m)) < 5
             /\ WeeklyRecord(m) \notin DOMAIN fs)
                => (Listed(weeks_to_analyze, WorkWeek(m)) <=> today > m + 4)

C7_Witness ==
    /\ pc = "found_weeks"
    /\ Cardinality(WeekdayRecords(Monday2)) \in 1..4
    /\ WeeklyRecord(Monday2) \notin DOMAIN fs
    /\ today > Monday2 + 4
    /\ Listed(weeks_to_analyze, WorkWeek(Monday2))

-----------------------------------------------------------------------------
(* Properties of the pipeline (Spec), continued *)

\* the run has called the generation for granularity g and period or item key
CalledFor(g, key) == \E i \in DOMAIN calls : calls[i] = [gran |-> g, key |-> key]

\* the work-weeks that have a daily analysis in the primary root and have passed
ClosedWeeks ==
    {w \in {_get_week_boundaries(strptime_dmY(p.name.stem)) : p \in DailyRecordFiles} :
        today > w.end}

\* C11: the rollup phases run although the listing found nothing.  At the end of a run
\* whose daily listing held no item (an input directory being available), every closed
\* work-week that has a daily analysis has its weekly record or was handed to the
\* generation in this run.
C11_RollupPhasesAlwaysRun ==
    (pc = "done" /\ input_dirs # <<>> /\ unanalyzed_files = <<>>)
        => \A w \in ClosedWeeks :
               _weekly_analysis_exists(w.start) \/ CalledFor("weekly", <<w.start>>)

\* the items or periods of a phase that were counted as successful or failed
Counted(g) == counts[g].successful + counts[g].failed

\* C12: strict phase ordering.  The weekly listing is taken only when every daily task
\* submitted in the run has finished, the monthly listing only when every listed week
\* was processed, the annual listing only when every listed month was processed; each
\* listing reads the file system the phase before it left.
C12_StrictPhaseOrdering ==
    [][/\ (pc # "weekly" /\ pc' = "weekly")
              => /\ pc = "daily"
                 /\ Finished = DOMAIN futures
                 /\ Counted("daily") = Len(unanalyzed_files)
                 /\ weeks_to_analyze' = _find_weeks_needing_analysis
       /\ (pc # "monthly" /\ pc' = "monthly")
              => /\ pc = "weekly"
                 /\ Counted("weekly") = Len(weeks_to_analyze)
                 /\ months_to_analyze' = _find_months_needing_analysis
       /\ (pc # "annual" /\ pc' = "annual")
              => /\ pc = "monthly"
                 /\ Counted("monthly") = Len(months_to_analyze)
                 /\ years_to_analyze' = _find_years_needing_analysis]_vars

C12_Witness ==
    /\ pc = "annual"
    /\ Len(futures) >= 2
    /\ counts["daily"].successful >= 1
    /\ counts["daily"].failed >= 1
    /\ Counted("weekly") >= 1
    /\ Counted("monthly") >= 1
    /\ years_to_analyze # <<>>

\* the generation calls the run has made for granularity g
CallsOf(g) == {i \in DOMAIN calls : calls[i].gran = g}

\* the daily phase of the run is over: its summary was printed
DailyDone == out # <<>>

OutputPathOf(i) == _save_analysis_usb(unanalyzed_files[i].notes_path, "daily")

\* C14: no write conflicts in the daily pool.  Two distinct items of one listing are
\* written to distinct output paths.
C14_DistinctOutputPaths ==
    \A i, j \in DOMAIN unanalyzed_files : i # j => OutputPathOf(i) # OutputPathOf(j)

-----------------------------------------------------------------------------
(* Properties of the pool (SpecPool) *)

\* C15: the daily pool has a fixed size.  At every moment at most max_workers = 5
\* generation calls are in flight, however many items the listing returned; outside the
\* daily phase no daily call is in flight, and a step makes at most one call, so rollup
\* periods are generated one at a time.
C15_BoundedPool ==
    /\ Cardinality(Running) <= max_workers
    /\ pc # "daily" => Running = {}
    /\ Len(calls) = Cardinality(DOMAIN futures \ Queued) + Cardinality(CallsOf("weekly"))
                        + Cardinality(CallsOf("monthly")) + Cardinality(CallsOf("annual"))
    /\ \A g \in {"weekly", "monthly", "annual"} :
          /\ Cardinality(CallsOf(g)) <= Counted(g)
          /\ (pc = g /\ idx <= Len(PeriodsOf(g))) => Counted(g) = idx - 1

C15_Witness ==
    /\ Len(unanalyzed_files) > max_workers
    /\ Cardinality(Running) = max_workers
    /\ Queued # {}

\* the path under which the rollup of a listed period is saved: the collect function's
\* output path, renamed by _save_analysis_usb
SavedRollupPath(g, period) ==
    LET c == IF g = "weekly"
             THEN collect_weekly_analyses_for_week(period.start, period.end)
             ELSE IF g = "monthly"
             THEN collect_monthly_analyses_for_month(period.start, period.end)
             ELSE collect_annual_analyses_for_year(period.start)
    IN  IF c.raised THEN <<>> ELSE _save_analysis_usb(c.output_path, g)

\* the path the existence check of granularity g tests for a period
CheckedRollupPath(g, period) ==
    IF g = "weekly" THEN WeeklyRecord(period.start)
    ELSE IF g = "monthly" THEN MonthlyRecord(period.start)
    ELSE AnnualRecord(period.start)

\* C16: rollup output naming agrees with the existence check.  For every period a rollup
\* listing of the run holds and whose children can be collected, the path the rollup is
\* saved under is the path the existence check of that granularity tests.
C16_RollupNamingAgrees ==
    \A g \in {"weekly", "monthly", "annual"} :
        \A i \in DOMAIN PeriodsOf(g) :
            SavedRollupPath(g, PeriodsOf(g)[i]) # <<>>
                => SavedRollupPath(g, PeriodsOf(g)[i]) = CheckedRollupPath(g, PeriodsOf(g)[i])

\* the phase that wrote the analysis p: save_analysis puts it in the directory <notes_type>
WrittenBy(p) == p.dirs[Len(p.dirs)]

\* C17: an analysis persisted by one phase is visible to the next phase's listing.  Once
\* the run has left a phase, every analysis that phase wrote is among the child records
\* the find function of the next granularity enumerates.
C17_PersistedVisibleToNextPhase ==
    \A p \in written :
        /\ (WrittenBy(p) = "daily" /\ pc \in {"weekly", "monthly", "annual", "done"})
               => p \in DailyRecordFiles
        /\ (WrittenBy(p) = "weekly" /\ pc \in {"monthly", "annual", "done"})
               => p \in WeeklyRecordFiles
        /\ (WrittenBy(p) = "monthly" /\ pc \in {"annual", "done"})
               => p \in MonthlyRecordFiles

\* the daily analyses stored under any configured root
DailyRecordsAnywhere ==
    {p \in UNION {RecordsIn(r, "daily") : r \in Roots} : strptime_dmY(p.name.stem) # NoDate}

\* C18: the scheduler counts child records of every configured root.  A daily analysis
\* under any root, whose work-week has passed and has no weekly record, puts that week
\* into the result of _find_weeks_needing_analysis.
C18_ChildrenOfAllRootsCounted ==
    \A p \in DailyRecordsAnywhere :
        LET w == _get_week_boundaries(strptime_dmY(p.name.stem))
        IN  (today > w.end /\ ~_weekly_analysis_exists(w.start)) => w \in WeeksNeeding

-----------------------------------------------------------------------------
(* The month and year listings at the end of 2026: the find functions called on a
   directory that holds some of the year's weekly and monthly records *)

PeriodsFirstDay == ToOrdinal(2026, 12, 30)    \* Wednesday 2026-12-30

\* the Mondays from 2026-11-30 to 2026-12-28: one of November, four of December
PeriodMondays == {ToOrdinal(2026, 11, 30) + 7 * i : i \in 0..4}

\* the months of 2026 whose monthly record is present: the first k months and any of
\* the last two
MonthSets == {(1..k) \cup R : k \in 0..12, R \in SUBSET {11, 12}}

\* the primary root when it holds weekly records of the Mondays W, monthly records of
\* the months M and, if a, the annual record of 2026
PeriodFiles(W, M, a) ==
    {Path(USB_INPUT_DIR, <<"weekly">>, Name(strftime_dmY(d), 0, <<"triaged">>, "txt")) :
         d \in W}
    \cup {Path(USB_INPUT_DIR, <<"monthly">>, Name(<<m, 2026>>, 0, <<"triaged">>, "txt")) :
             m \in M}
    \cup (IF a THEN {Path(USB_INPUT_DIR, <<"annual">>, Name(<<2026>>, 0, <<"triaged">>, "txt"))}
          ELSE {})

InitPeriods ==
    /\ clock = 0
    /\ today = PeriodsFirstDay
    /\ input_dirs = <<USB_INPUT_DIR, LOCAL_INPUT_DIR>>
    /\ \E W \in SUBSET PeriodMondays, M \in MonthSets, a \in BOOLEAN :
          fs = [p \in PeriodFiles(W, M, a) |-> 0]
    /\ RunIdle

\* a day passes
PassDay ==
    /\ pc = "idle"
    /\ today < PeriodsFirstDay + MaxDays
    /\ today' = today + 1
    /\ UNCHANGED <<fs, clock, input_dirs, runvars>>

NextPeriods ==
    \/ PassDay
    \/ CallFindMonths
    \/ CallFindYears
    \/ Forget

SpecPeriods == InitPeriods /\ [][NextPeriods]_vars

-----------------------------------------------------------------------------
(* Properties of the month and year listings (SpecPeriods) *)

\* the months and the year the records of this specification belong to
PeriodMonths == {_get_month_boundaries(d) : d \in PeriodMondays}
PeriodYears == {2026}

\* the child records of a month and of a year, in the primary root
WeeklyChildren(m) == {d \in PeriodMondays : d \in m.start..m.end /\ WeeklyRecord(d) \in DOMAIN fs}
MonthlyChildren(y) == {k \in 1..12 : MonthlyRecord(ToOrdinal(y, k, 1)) \in DOMAIN fs}

\* C19: monthly and annual promotion conditions.  A month (year) with at least one
\* child record is returned if and only if it has no rollup record and either it has 4
\* weekly (12 monthly) child records or today is after its last day; every period
\* returned has a child record.
C19_MonthlyAnnualPromotion ==
    /\ pc = "found_months" =>
          /\ \A m \in PeriodMonths :
                WeeklyChildren(m) # {}
                    => (Listed(months_to_analyze, m)
                          <=> /\ MonthlyRecord(m.start) \notin DOMAIN fs
                              /\ \/ Cardinality(WeeklyChildren(m)) >= 4
                                 \/ today > m.end)
          /\ \A i \in DOMAIN months_to_analyze :
                /\ months_to_analyze[i] \in PeriodMonths
                /\ WeeklyChildren(months_to_analyze[i]) # {}
    /\ pc = "found_years" =>
          /\ \A y \in PeriodYears :
                MonthlyChildren(y) # {}
                    => (Listed(years_to_analyze, [start |-> y])
                          <=> /\ AnnualRecord(y) \notin DOMAIN fs
                              /\ \/ Cardinality(MonthlyChildren(y)) >= 12
                                 \/ today > ToOrdinal(y, 12, 31))
          /\ \A i \in DOMAIN years_to_analyze :
                /\ years_to_analyze[i].start \in PeriodYears
                /\ MonthlyChildren(years_to_analyze[i].start) # {}

\* a year with all twelve monthly records is returned before it has ended
C19_Witness ==
    /\ pc = "found_years"
    /\ Cardinality(MonthlyChildren(2026)) = 12
    /\ today <= ToOrdinal(2026, 12, 31)
    /\ years_to_analyze = <<[start |-> 2026]>>

-----------------------------------------------------------------------------
(* Properties of the pipeline (Spec): generation calls *)

\* C20: at most one generation call per item and per period in a run.  No two calls of
\* the run are for the same granularity and key, the daily calls are no more than the
\* items listed and the calls of a rollup phase no more than its periods: a failed
\* generation is not tried again.
C20_OneCallPerItemPerRun ==
    /\ \A i, j \in DOMAIN calls : calls[i] = calls[j] => i = j
    /\ Cardinality(CallsOf("daily")) <= Len(unanalyzed_files)
    /\ \A g \in {"weekly", "monthly", "annual"} :
          pc \in {g, "done"} => Cardinality(CallsOf(g)) <= Len(PeriodsOf(g))

\* a finished run in which a generation failed and a rollup period was generated
C20_Witness ==
    /\ pc = "done"
    /\ \E g \in Granularities : counts[g].failed >= 1
    /\ CallsOf("daily") # {}
    /\ CallsOf("weekly") \cup CallsOf("monthly") \cup CallsOf("annual") # {}
    /\ Len(calls) = Cardinality({calls[i] : i \in DOMAIN calls})

-----------------------------------------------------------------------------
(* Properties of the pipeline (Spec): re-runs and rollup failures *)

\* the listing a run started in this state with the same preference would get
NextListing == load_all_unanalyzed_task_notes(pref).items

\* C21: retry by re-run.  At the end of a run, every item whose generation failed in
\* this run is in the listing of the next run, whatever happened to its siblings.
C21_RetryByRerun ==
    pc = "done" =>
        \A i \in DOMAIN futures :
            futures[i] = "failed"
                => \E k \in DOMAIN NextListing :
                       NextListing[k].timestamp = unanalyzed_files[i].timestamp

-----------------------------------------------------------------------------
(* Properties of the pool specification (SpecPool): rollup failures *)

\* the run has left the phase of granularity g
PhaseOver(g) ==
    IF g = "weekly" THEN pc \in {"monthly", "annual", "done"}
    ELSE IF g = "monthly" THEN pc \in {"annual", "done"}
    ELSE pc = "done"

\* C22: rollup failure isolation.  When a rollup phase is over every period of its list
\* was counted, as successful exactly if its rollup was saved and as failed otherwise;
\* the phases after it were executed the same way, and a run that got past the daily
\* listing ends with the exit code the daily phase alone determines.
C22_RollupFailureIsolation ==
    /\ \A g \in {"weekly", "monthly", "annual"} :
          /\ PhaseOver(g) => Counted(g) = Len(PeriodsOf(g))
          /\ counts[g].successful = Cardinality({p \in written : WrittenBy(p) = g})
    /\ (pc = "done" /\ PassedListing)
          => exit_code = IF entry = "cli"
                         THEN (IF counts["daily"].failed > 0 THEN 1 ELSE 0)
                         ELSE -1

\* a finished run whose first week failed, whose second week was saved and whose annual
\* phase was executed
C22_Witness ==
    /\ pc = "done"
    /\ Len(weeks_to_analyze) = 2
    /\ counts["weekly"] = [successful |-> 1, failed |-> 1]
    /\ \E p \in written : WrittenBy(p) = "weekly" /\ p.name.stem = strftime_Ymd(Monday2)
    /\ counts["annual"].successful = 1

-----------------------------------------------------------------------------
(* Properties of the pipeline (Spec): the listing's frame *)

\* every visual item of a listing is read from its existing sidecar
FromSidecar(items) ==
    \A k \in DOMAIN items :
        IsVisual(items[k].notes_path)
            => /\ SidecarOf(items[k].notes_path) \in DOMAIN fs
               /\ items[k].content = SidecarOf(items[k].notes_path)

-----------------------------------------------------------------------------
(* Reconciliation with Google Drive as the source and a local output directory:
   files.py, Google Drive functions *)

GDRIVE_FOLDER == 3          \* the Google Drive folder; its notes are in the subfolder daily
LOCAL_OUTPUT_DIR == 4       \* the local directory analyses and sidecars are saved to

\* gdrive.extract_timestamp_from_filename(filename): inner suffixes and the page
\* identifier are dropped before the 15-character check
extract_timestamp_from_filename(name) ==
    IF Len(name.stem) = 2 THEN name.stem ELSE NoStamp

\* _analysis_exists_locally("daily", analysis_filename)
_analysis_exists_locally(analysis_name) ==
    Exists(Path(LOCAL_OUTPUT_DIR, <<"daily">>, analysis_name))

\* _needs_reanalysis_gdrive("daily", timestamp, file_info): file_info is not read
_needs_reanalysis_gdrive(timestamp, file_info) ==
    LET ts_date == strptime_Ymd(timestamp[1])
        analysis_path == Path(LOCAL_OUTPUT_DIR, <<"daily">>, DailyAnalysisName(ts_date))
        raw_notes_path == Path(LOCAL_OUTPUT_DIR, <<>>, RawNotesName(timestamp))
    IN  IF ts_date = NoDate THEN FALSE
        ELSE IF ~Exists(analysis_path) THEN FALSE
        ELSE Exists(raw_notes_path) /\ Mtime(raw_notes_path) > Mtime(analysis_path)

\* gdrive.parse_filename_datetime(filename): the first run of digits that parses
parse_filename_datetime(name) ==
    IF Len(name.stem) >= 1 THEN strptime_Ymd(name.stem[1]) ELSE NoDate

\* one iteration of the loop over the Drive files (files.py 790-874): the item appended
\* for file_info, or <<>> when the file is skipped
DriveItemFor(file_info, file_preference) ==
    LET file_date == parse_filename_datetime(file_info.name)
        timestamp == extract_timestamp_from_filename(file_info.name)
        analysis_filename ==
            IF timestamp # NoStamp THEN DailyAnalysisName(strptime_Ymd(timestamp[1]))
            ELSE Name(file_info.name.stem, file_info.name.page, <<"triaged">>, "txt")
        raw_notes_path == Path(LOCAL_OUTPUT_DIR, <<>>, RawNotesName(timestamp))
        item(content) == <<[notes_path |-> file_info, content |-> content,
                            file_date |-> file_date, timestamp |-> timestamp]>>
    IN  IF IsTriagedName(file_info.name) THEN <<>>
        ELSE IF file_info.name.ext \notin SearchExtensions(file_preference) THEN <<>>
        ELSE IF file_date = NoDate THEN <<>>
        ELSE IF /\ _analysis_exists_locally(analysis_filename)
                /\ ~(timestamp # NoStamp /\ _needs_reanalysis_gdrive(timestamp, file_info))
             THEN <<>>
        ELSE IF file_info.name.ext \in VISUAL_EXTENSIONS
             THEN IF timestamp # NoStamp /\ Exists(raw_notes_path)
                  THEN item(raw_notes_path) ELSE <<>>
        ELSE item(file_info)

RECURSIVE DriveScan(_, _)
DriveScan(files, file_preference) ==
    IF files = <<>> THEN <<>>
    ELSE DriveItemFor(Head(files), file_preference) \o DriveScan(Tail(files), file_preference)

\* _load_all_unanalyzed_task_notes_gdrive("daily", file_preference): the Drive lists the
\* files by name, descending
_load_all_unanalyzed_task_notes_gdrive(file_preference) ==
    LET unanalyzed == DriveScan(SortedReverse(FilesIn(GDRIVE_FOLDER, <<"daily">>)),
                                file_preference)
    IN  IF unanalyzed = <<>> THEN [raised |-> TRUE, items |-> <<>>]
        ELSE [raised |-> FALSE, items |-> unanalyzed]

\* _save_analysis_gdrive(analysis, input_path, "daily") with LOCAL_OUTPUT_DIR set: the
\* path written
_save_analysis_gdrive(input_path) ==
    LET timestamp == extract_timestamp_from_filename(input_path.name)
        ts_date == strptime_Ymd(timestamp[1])
        date_str == IF timestamp = NoStamp THEN input_path.name.stem
                    ELSE IF ts_date = NoDate THEN <<timestamp[1]>>
                    ELSE strftime_dmY(ts_date)
    IN  Path(LOCAL_OUTPUT_DIR, <<"daily">>, Name(date_str, 0, <<"triaged">>, "txt"))

\* the notes that may be in the Drive folder
DriveNotes ==
    {Path(GDRIVE_FOLDER, <<"daily">>, Name(StampA, 0, <<>>, "txt")),
     Path(GDRIVE_FOLDER, <<"daily">>, Name(StampA, 1, <<>>, "png")),
     Path(GDRIVE_FOLDER, <<"daily">>, Name(StampB, 0, <<>>, "txt"))}

InitDrive ==
    /\ fs = <<>>
    /\ clock = 0
    /\ today = RunDay
    /\ input_dirs = <<>>
    /\ RunIdle

\* a note is uploaded to the Drive folder, or edited there: modifiedTime is now
DriveModify(p) ==
    /\ pc = "idle"
    /\ p \in DriveNotes
    /\ Exists(p) => fs[p] < clock
    /\ fs' = Write(fs, p)
    /\ UNCHANGED <<clock, today, input_dirs, runvars>>

\* the sidecar of a visual note is written to the local output directory by Sync, or
\* edited there
DriveSidecar(p) ==
    /\ pc = "idle"
    /\ Exists(p)
    /\ p \in DriveNotes
    /\ p.name.ext \in VISUAL_EXTENSIONS
    /\ LET raw_notes_path == Path(LOCAL_OUTPUT_DIR, <<>>, RawNotesName(p.name.stem))
       IN  /\ Exists(raw_notes_path) => fs[raw_notes_path] < clock
           /\ fs' = Write(fs, raw_notes_path)
    /\ UNCHANGED <<clock, today, input_dirs, runvars>>

\* time passes
DriveTick ==
    /\ pc = "idle"
    /\ clock < MaxClock
    /\ clock' = clock + 1
    /\ UNCHANGED <<fs, today, input_dirs, runvars>>

\* a run lists the Drive folder (cli.py 76)
DriveList(fp) ==
    /\ pc = "idle"
    /\ fp \in {"png", "txt"}
    /\ pc' = "drive_listed"
    /\ pref' = fp
    /\ unanalyzed_files' = _load_all_unanalyzed_task_notes_gdrive(fp).items
    /\ idx' = 1
    /\ UNCHANGED <<fs, clock, today, input_dirs, entry, futures, weeks_to_analyze,
                   months_to_analyze, years_to_analyze, counts, out, exit_code, calls,
                   written>>

\* analyze_single_file for one item of the listing: on success the analysis is saved to
\* the local output directory
DriveAnalyze(ok) ==
    /\ pc = "drive_listed"
    /\ idx <= Len(unanalyzed_files)
    /\ ok \in BOOLEAN
    /\ calls' = Append(calls, [gran |-> "daily", key |-> unanalyzed_files[idx].timestamp])
    /\ counts' = Bump(counts, "daily", ok)
    /\ IF ok
       THEN /\ fs' = Write(fs, _save_analysis_gdrive(unanalyzed_files[idx].notes_path))
            /\ written' = written \cup {_save_analysis_gdrive(unanalyzed_files[idx].notes_path)}
       ELSE UNCHANGED <<fs, written>>
    /\ idx' = idx + 1
    /\ UNCHANGED <<clock, today, input_dirs, pc, entry, pref, unanalyzed_files, futures,
                   weeks_to_analyze, months_to_analyze, years_to_analyze, out, exit_code>>

\* the run is over
DriveReturn ==
    /\ pc = "drive_listed"
    /\ idx > Len(unanalyzed_files)
    /\ pc' = "idle"
    /\ pref' = "none"
    /\ unanalyzed_files' = <<>>
    /\ idx' = 0
    /\ counts' = ZeroCounts
    /\ calls' = <<>>
    /\ written' = {}
    /\ UNCHANGED <<fs, clock, today, input_dirs, entry, futures, weeks_to_analyze,
                   months_to_analyze, years_to_analyze, out, exit_code>>

NextDrive ==
    \/ \E p \in DriveNotes : DriveModify(p)
    \/ \E p \in DriveNotes : DriveSidecar(p)
    \/ DriveTick
    \/ \E fp \in {"png", "txt"} : DriveList(fp)
    \/ \E ok \in BOOLEAN : DriveAnalyze(ok)
    \/ DriveReturn

SpecDrive == InitDrive /\ [][NextDrive]_vars

-----------------------------------------------------------------------------
(* Properties of the Drive listing (SpecDrive) *)

\* the local analysis of a Drive note
DriveAnalysisOf(p) ==
    Path(LOCAL_OUTPUT_DIR, <<"daily">>, DailyAnalysisName(strptime_Ymd(p.name.stem[1])))

\* C24: staleness of the source on the cloud backend.  When the Drive folder has just
\* been listed for text notes, every text note modified after its local analysis is in
\* the listing.
C24_DriveSourceStaleness ==
    (pc = "drive_listed" /\ idx = 1 /\ pref = "txt")
        => \A p \in FilesIn(GDRIVE_FOLDER, <<"daily">>) :
               (/\ p.name.ext \in TEXT_EXTENSIONS
                /\ Exists(DriveAnalysisOf(p))
                /\ Mtime(p) > Mtime(DriveAnalysisOf(p)))
                   => \E k \in DOMAIN unanalyzed_files : unanalyzed_files[k].notes_path = p

-----------------------------------------------------------------------------
(* Properties of the pipeline (Spec): one logical item across roots *)

\* the position of a root in the configured priority order
Priority(r) == CHOOSE i \in 1..Len(input_dirs) : input_dirs[i] = r

\* the source p has an analysis record that is not older than the source or its sidecar
UpToDate(p) == Analysed(p) /\ ~SourceNewer(p) /\ ~SidecarNewer(p)

\* C26: a logical item is not processed twice across roots.  No item of a listing is
\* the lower-priority copy of a timestamp whose copy in a higher-priority root has an
\* up-to-date analysis record.
C26_NoSecondCopyAcrossRoots ==
    JustListed =>
        \A k \in DOMAIN unanalyzed_files :
            \A q \in Sources(pref) :
                (/\ StampOf(q) = unanalyzed_files[k].timestamp
                 /\ Priority(q.root) < Priority(unanalyzed_files[k].notes_path.root))
                    => ~UpToDate(q)

-----------------------------------------------------------------------------
(* Properties of the promotion scheduler (SpecSched): collecting what was listed *)

\* C29: every work-week returned by _find_weeks_needing_analysis can be collected: the
\* collector finds a daily analysis dated within Monday..Friday of that week.
C29_ListedWeeksCollectable ==
    pc = "found_weeks" =>
        \A i \in DOMAIN weeks_to_analyze :
            ~collect_weekly_analyses_for_week(weeks_to_analyze[i].start,
                                              weeks_to_analyze[i].end).raised

-----------------------------------------------------------------------------
(* Sync: streamlit_ui/logic.py, and the conversion of files.py.  The output directory
   is LOCAL_OUTPUT_DIR (panels.py); `out` holds stats["errors"], `calls` the
   extractions, `written` the files the call created *)

Subdirs == <<"daily", "weekly", "monthly", "annual">>

NoFailure == [kind |-> "none"]

\* shutil.copy2(src, dst): dst exists afterwards with the content and the mtime of src
copy2(f, src, dst) ==
    IF IsRead(dst)
    THEN [q \in DOMAIN f \cup {dst} |->
             IF q = dst THEN (IF MtimeRead(dst) THEN f[src] ELSE 0) ELSE f[q]]
    ELSE f

RECURSIVE ConcatAll(_)
ConcatAll(ss) == IF ss = <<>> THEN <<>> ELSE Head(ss) \o ConcatAll(Tail(ss))

RECURSIVE Reverse(_)
Reverse(s) == IF s = <<>> THEN <<>> ELSE Reverse(Tail(s)) \o <<Head(s)>>

\* directory.glob("*.raw_notes.txt")
MatchesRawNotesGlob(name) ==
    name.ext = "txt" /\ name.mids # <<>> /\ name.mids[Len(name.mids)] = "raw_notes"

\* the files of root/dirs in f
FilesOf(f, root, dirs) == {p \in DOMAIN f : p.root = root /\ p.dirs = dirs}

\* _sync_raw_notes_to_output: the source files of the input directories in the order
\* they are visited (analysis files and sidecars are passed over)
RawNoteFiles(f, dirs) ==
    ConcatAll([j \in 1..Len(dirs) |->
        SortedReverse({p \in FilesOf(f, dirs[j], <<>>) :
                          ~IsTriagedName(p.name) /\ ~MatchesRawNotesGlob(p.name)})])

\* _sync_raw_notes_to_output, the loop (logic.py 191-228): a copy that fails is reported
RECURSIVE _sync_raw_notes_to_output(_, _, _, _, _)
_sync_raw_notes_to_output(files, f, raw_files_copied, errors, bad) ==
    IF files = <<>> THEN [fs |-> f, errors |-> errors]
    ELSE LET file_path == Head(files)
             target_path == Path(LOCAL_OUTPUT_DIR, <<>>, file_path.name)
         IN  IF file_path.name \in raw_files_copied \/ target_path \in DOMAIN f
             THEN _sync_raw_notes_to_output(Tail(files), f, raw_files_copied, errors, bad)
             ELSE IF bad = [kind |-> "copy", file |-> file_path]
             THEN _sync_raw_notes_to_output(Tail(files), f, raw_files_copied,
                                            Append(errors, bad), bad)
             ELSE _sync_raw_notes_to_output(Tail(files), copy2(f, file_path, target_path),
                                            raw_files_copied \cup {file_path.name},
                                            errors, bad)

\* convert_visual_files_in_directory, the visual files in sorted order
VisualFiles(f, directory) ==
    Reverse(SortedReverse({p \in FilesOf(f, directory, <<>>) :
                              p.name.ext \in VISUAL_EXTENSIONS}))

\* variant: every page file without sidecar is extracted and written
RECURSIVE convert_every_page(_, _, _, _, _, _, _)
convert_every_page(files, directory, f, processed_timestamps, extracted, errors, bad) ==
    IF files = <<>> THEN [fs |-> f, extracted |-> extracted, errors |-> errors]
    ELSE LET visual_path == Head(files)
             timestamp == _extract_timestamp(visual_path.name)
             raw_notes_path == Path(directory, <<>>, RawNotesName(timestamp))
         IN  IF timestamp = NoStamp
             THEN convert_every_page(Tail(files), directory, f,
                                     processed_timestamps, extracted, errors, bad)
             ELSE IF bad = [kind |-> "convert", file |-> visual_path]
             THEN convert_every_page(Tail(files), directory, f,
                      processed_timestamps,
                      Append(extracted, [gran |-> "convert", key |-> timestamp, ok |-> FALSE]),
                      Append(errors, bad), bad)
             ELSE convert_every_page(Tail(files), directory,
                      Write(f, raw_notes_path), processed_timestamps \cup {timestamp},
                      Append(extracted, [gran |-> "convert", key |-> timestamp, ok |-> TRUE]),
                      errors, bad)

\* convert_visual_files_in_directory, the loop (files.py 538-579): one extraction per
\* timestamp that has no sidecar; an extraction that fails is reported and the next
\* page of the timestamp is tried
RECURSIVE convert_visual_files_in_directory(_, _, _, _, _, _, _)
convert_visual_files_in_directory(files, directory, f, processed_timestamps, extracted, errors, bad) ==
    IF files = <<>> THEN [fs |-> f, extracted |-> extracted, errors |-> errors]
    ELSE LET visual_path == Head(files)
             timestamp == _extract_timestamp(visual_path.name)
             raw_notes_path == Path(directory, <<>>, RawNotesName(timestamp))
         IN  IF timestamp = NoStamp \/ timestamp \in processed_timestamps
             THEN convert_visual_files_in_directory(Tail(files), directory, f,
                      processed_timestamps, extracted, errors, bad)
             ELSE IF raw_notes_path \in DOMAIN f
             THEN convert_visual_files_in_directory(Tail(files), directory, f,
                      processed_timestamps \cup {timestamp}, extracted, errors, bad)
             ELSE IF bad = [kind |-> "convert", file |-> visual_path]
             THEN convert_visual_files_in_directory(Tail(files), directory, f,
                      processed_timestamps,
                      Append(extracted, [gran |-> "convert", key |-> timestamp, ok |-> FALSE]),
                      Append(errors, bad), bad)
             ELSE convert_visual_files_in_directory(Tail(files), directory,
                      Write(f, raw_notes_path), processed_timestamps \cup {timestamp},
                      Append(extracted, [gran |-> "convert", key |-> timestamp, ok |-> TRUE]),
                      errors, bad)

\* variant: the sidecars at the top of the output directory are left out
files_from_output_subdirs(f) ==
    ConcatAll([i \in 1..Len(Subdirs) |->
        SortedReverse({p \in FilesOf(f, LOCAL_OUTPUT_DIR, <<Subdirs[i]>>) :
                          MatchesTriagedGlob(p.name)})
        \o SortedReverse({p \in FilesOf(f, LOCAL_OUTPUT_DIR, <<Subdirs[i]>>) :
                             MatchesRawNotesGlob(p.name)})])

\* the analysis files and sidecars of the output directory (logic.py 276-286, 501-507)
files_from_output(f) ==
    ConcatAll([i \in 1..Len(Subdirs) |->
        SortedReverse({p \in FilesOf(f, LOCAL_OUTPUT_DIR, <<Subdirs[i]>>) :
                          MatchesTriagedGlob(p.name)})
        \o SortedReverse({p \in FilesOf(f, LOCAL_OUTPUT_DIR, <<Subdirs[i]>>) :
                             MatchesRawNotesGlob(p.name)})])
    \o SortedReverse({p \in FilesOf(f, LOCAL_OUTPUT_DIR, <<>>) : MatchesRawNotesGlob(p.name)})

\* _sync_output_to_inputs: one copy per output file and input directory
OutputToInputCopies(f, dirs) ==
    LET files == files_from_output(f)
    IN  ConcatAll([k \in 1..Len(files) |->
            [j \in 1..Len(dirs) |-> [file |-> files[k], dir |-> dirs[j]]]])

\* _sync_output_to_inputs, the loop (logic.py 291-320): the copy overwrites the target;
\* a failed copy is reported, a failed mkdir (outside the try) is raised
RECURSIVE _sync_output_to_inputs(_, _, _, _)
_sync_output_to_inputs(copies, f, errors, bad) ==
    IF copies = <<>> THEN [fs |-> f, errors |-> errors, raised |-> FALSE]
    ELSE LET c == Head(copies)
             target_path == Path(c.dir, c.file.dirs, c.file.name)
         IN  IF c.file.dirs # <<>> /\ bad = [kind |-> "mkdir", file |-> c.file, dir |-> c.dir]
             THEN [fs |-> f, errors |-> errors, raised |-> TRUE]
             ELSE IF bad = [kind |-> "copy", file |-> c.file, dir |-> c.dir]
             THEN _sync_output_to_inputs(Tail(copies), f, Append(errors, bad), bad)
             ELSE _sync_output_to_inputs(Tail(copies), copy2(f, c.file, target_path),
                                         errors, bad)

\* _sync_inputs_to_output: every file of the input directories' subdirectories
InputSubdirFiles(f, dirs) ==
    ConcatAll([j \in 1..Len(dirs) |->
        ConcatAll([i \in 1..Len(Subdirs) |->
            SortedReverse(FilesOf(f, dirs[j], <<Subdirs[i]>>))])])

\* _sync_inputs_to_output, the loop (logic.py 347-386): a file missing in the output
\* directory is copied there once
RECURSIVE _sync_inputs_to_output(_, _, _, _, _)
_sync_inputs_to_output(files, f, files_copied_from_input, errors, bad) ==
    IF files = <<>> THEN [fs |-> f, errors |-> errors]
    ELSE LET file_path == Head(files)
             output_file_path == Path(LOCAL_OUTPUT_DIR, file_path.dirs, file_path.name)
             file_key == <<file_path.dirs, file_path.name>>
         IN  IF output_file_path \in DOMAIN f \/ file_key \in files_copied_from_input
             THEN _sync_inputs_to_output(Tail(files), f, files_copied_from_input, errors, bad)
             ELSE IF bad = [kind |-> "copy", file |-> file_path]
             THEN _sync_inputs_to_output(Tail(files), f, files_copied_from_input,
                                         Append(errors, bad), bad)
             ELSE _sync_inputs_to_output(Tail(files), copy2(f, file_path, output_file_path),
                                         files_copied_from_input \cup {file_key}, errors, bad)

\* _sync_to_gdrive, the loop (logic.py 428-441): read_text is outside the inner try, so
\* a failed read ends the loop through the outer handler; a failed upload is reported
\* and the loop goes on
RECURSIVE _sync_to_gdrive(_, _, _, _)
_sync_to_gdrive(files, uploaded, errors, bad) ==
    IF files = <<>> THEN [uploaded |-> uploaded, errors |-> errors]
    ELSE LET file_path == Head(files)
         IN  IF bad = [kind |-> "read", file |-> file_path]
             THEN [uploaded |-> uploaded, errors |-> Append(errors, bad)]
             ELSE IF bad = [kind |-> "upload", file |-> file_path]
             THEN _sync_to_gdrive(Tail(files), uploaded, Append(errors, bad), bad)
             ELSE _sync_to_gdrive(Tail(files), uploaded \cup {file_path}, errors, bad)

\* the operations of a sync phase that may fail: kinds applied to the files it visits
FileFailures(kinds, files) ==
    {NoFailure} \cup {[kind |-> k, file |-> files[i]] : k \in kinds, i \in 1..Len(files)}
CopyFailures(copies) ==
    {NoFailure}
    \cup {[kind |-> k, file |-> copies[i].file, dir |-> copies[i].dir] :
             k \in {"mkdir", "copy"}, i \in 1..Len(copies)}

\* source files the environment may capture in the input directories
SyncNotes ==
    {Path(USB_INPUT_DIR, <<>>, Name(StampA, 1, <<>>, "png")),
     Path(USB_INPUT_DIR, <<>>, Name(StampA, 2, <<>>, "png"))}

syncvars == <<entry, pref, unanalyzed_files, futures, weeks_to_analyze, months_to_analyze,
              years_to_analyze, idx, counts, exit_code>>

InitSync ==
    /\ fs = <<>>
    /\ clock = 0
    /\ today = RunDay
    /\ input_dirs = <<USB_INPUT_DIR, LOCAL_INPUT_DIR>>
    /\ RunIdle

\* a new source file is captured in an input directory
SyncCapture(p) ==
    /\ pc = "idle"
    /\ p \in SyncNotes
    /\ ~Exists(p)
    /\ fs' = Write(fs, p)
    /\ UNCHANGED <<clock, today, input_dirs, runvars>>

\* a source file or a sidecar of an input directory is edited
SyncTouch(p) ==
    /\ p.root \in Roots
    /\ Touch(p)

\* time passes between the calls
SyncTick ==
    /\ pc = "idle"
    /\ clock' = Later
    /\ clock' # clock
    /\ UNCHANGED <<fs, today, input_dirs, runvars>>

\* the daily analyses a pipeline run saves (logic.py 46-89): one per listed item whose
\* generation succeeds
RECURSIVE SaveDaily(_, _, _)
SaveDaily(items, failing, f) ==
    IF items = <<>> THEN f
    ELSE SaveDaily(Tail(items), {i - 1 : i \in failing \ {1}},
                   IF 1 \in failing THEN f
                   ELSE Write(f, _save_analysis_usb(Head(items).notes_path, "daily")))

\* a pipeline run of the UI between two syncs: the daily phase writes next to the
\* notes; the rollup phases write below <granularity>/<granularity>/, which no sync
\* phase lists
SyncAnalyze(failing) ==
    /\ pc = "idle"
    /\ LET r == load_all_unanalyzed_task_notes("png")
       IN  /\ ~r.raised
           /\ failing \subseteq 1..Len(r.items)
           /\ Cardinality(failing) <= MaxFailures
           /\ fs' = SaveDaily(r.items, failing, fs)
    /\ UNCHANGED <<clock, today, input_dirs, runvars>>

\* sync_files_across_directories is called (logic.py 466-474); the output directory exists
SyncStart ==
    /\ pc = "idle"
    /\ pc' = "sync_raw"
    /\ out' = <<>>
    /\ calls' = <<>>
    /\ written' = {}
    /\ UNCHANGED <<fs, clock, today, input_dirs, syncvars>>

\* a failure is drawn only for an operation the phase performs
Drawn(bad, errors, raised) ==
    \/ bad = NoFailure
    \/ /\ Len(out) < MaxFailures
       /\ raised \/ errors # out

\* Phase 0 (logic.py 476-484)
SyncRawNotes(bad) ==
    /\ pc = "sync_raw"
    /\ LET r == _sync_raw_notes_to_output(RawNoteFiles(fs, input_dirs), fs, {}, out, bad)
       IN  /\ Drawn(bad, r.errors, FALSE)
           /\ fs' = r.fs
           /\ out' = r.errors
           /\ written' = written \cup (DOMAIN r.fs \ DOMAIN fs)
    /\ pc' = "sync_convert"
    /\ UNCHANGED <<clock, today, input_dirs, calls, syncvars>>

\* Phase 0.5 (logic.py 486-489)
SyncConvert(bad) ==
    /\ pc = "sync_convert"
    /\ LET r == convert_visual_files_in_directory(VisualFiles(fs, LOCAL_OUTPUT_DIR),
                    LOCAL_OUTPUT_DIR, fs, {}, <<>>, out, bad)
       IN  /\ Drawn(bad, r.errors, FALSE)
           /\ fs' = r.fs
           /\ out' = r.errors
           /\ calls' = r.extracted
           /\ written' = written \cup (DOMAIN r.fs \ DOMAIN fs)
    /\ pc' = "sync_out_in"
    /\ UNCHANGED <<clock, today, input_dirs, syncvars>>

\* Phase 1 (logic.py 491-494); an exception that leaves _sync_output_to_inputs leaves
\* sync_files_across_directories as well
SyncOutputToInputs(bad) ==
    /\ pc = "sync_out_in"
    /\ LET r == _sync_output_to_inputs(OutputToInputCopies(fs, input_dirs), fs, out, bad)
       IN  /\ Drawn(bad, r.errors, r.raised)
           /\ fs' = r.fs
           /\ out' = r.errors
           /\ written' = written \cup (DOMAIN r.fs \ DOMAIN fs)
           /\ pc' = IF r.raised THEN "sync_raised" ELSE "sync_in_out"
    /\ UNCHANGED <<clock, today, input_dirs, calls, syncvars>>

\* Phase 2 (logic.py 496-499)
SyncInputsToOutput(bad) ==
    /\ pc = "sync_in_out"
    /\ LET r == _sync_inputs_to_output(InputSubdirFiles(fs, input_dirs), fs, {}, out, bad)
       IN  /\ Drawn(bad, r.errors, FALSE)
           /\ fs' = r.fs
           /\ out' = r.errors
           /\ written' = written \cup (DOMAIN r.fs \ DOMAIN fs)
    /\ pc' = "sync_gdrive"
    /\ UNCHANGED <<clock, today, input_dirs, calls, syncvars>>

\* Phase 3 (logic.py 501-517, 391-447): nothing is done when Google Drive is not
\* configured, a message is recorded when the user is not signed in, and the files of
\* the output directory are uploaded otherwise; then the statistics are returned
SyncToGdrive(drive, bad) ==
    /\ pc = "sync_gdrive"
    /\ drive \in {"unavailable", "not_authenticated", "client"}
    /\ IF drive = "unavailable"
       THEN /\ bad = NoFailure
            /\ pc' = "sync_done"
            /\ UNCHANGED <<out, written>>
       ELSE IF drive = "not_authenticated"
       THEN /\ bad = NoFailure
            /\ Len(out) < MaxFailures
            /\ pc' = "sync_done"
            /\ out' = Append(out, [kind |-> "not_authenticated"])
            /\ UNCHANGED written
       ELSE LET r == _sync_to_gdrive(files_from_output(fs), {}, out, bad)
            IN  /\ Drawn(bad, r.errors, FALSE)
                /\ pc' = "sync_uploaded"
                /\ out' = r.errors
                /\ written' = written \cup {Path(GDRIVE_FOLDER, p.dirs, p.name) : p \in r.uploaded}
    /\ UNCHANGED <<fs, clock, today, input_dirs, calls, syncvars>>

\* the caller has the statistics, or the exception
SyncReturn ==
    /\ pc \in {"sync_done", "sync_uploaded", "sync_raised"}
    /\ pc' = "idle"
    /\ out' = <<>>
    /\ calls' = <<>>
    /\ written' = {}
    /\ UNCHANGED <<fs, clock, today, input_dirs, syncvars>>

NextSync ==
    \/ \E p \in SyncNotes : SyncCapture(p)
    \/ \E p \in DOMAIN fs : SyncTouch(p)
    \/ SyncTick
    \/ \E failing \in SUBSET (1..Cardinality(SyncNotes)) : SyncAnalyze(failing)
    \/ SyncStart
    \/ \E bad \in FileFailures({"copy"}, RawNoteFiles(fs, input_dirs)) : SyncRawNotes(bad)
    \/ \E bad \in FileFailures({"convert"}, VisualFiles(fs, LOCAL_OUTPUT_DIR)) :
           SyncConvert(bad)
    \/ \E bad \in CopyFailures(OutputToInputCopies(fs, input_dirs)) : SyncOutputToInputs(bad)
    \/ \E bad \in FileFailures({"copy"}, InputSubdirFiles(fs, input_dirs)) :
           SyncInputsToOutput(bad)
    \/ \E drive \in {"unavailable", "not_authenticated", "client"},
          bad \in FileFailures({"read", "upload"}, files_from_output(fs)) :
           SyncToGdrive(drive, bad)
    \/ SyncReturn

SpecSync == InitSync /\ [][NextSync]_vars

-----------------------------------------------------------------------------
(* Conversion: convert_visual_files_in_directory in the output directory *)

OutputSidecar(timestamp) == Path(LOCAL_OUTPUT_DIR, <<>>, RawNotesName(timestamp))

\* the timestamps of the visual files of the output directory in f
VisualStamps(f) ==
    {_extract_timestamp(p.name) : p \in {q \in FilesOf(f, LOCAL_OUTPUT_DIR, <<>>) :
                                            q.name.ext \in VISUAL_EXTENSIONS}} \ {NoStamp}

\* the extractions of c made for a timestamp, and those of them that succeeded
ExtractionsFor(c, timestamp) == {i \in DOMAIN c : c[i].key = timestamp}
SuccessesFor(c, timestamp) == {i \in ExtractionsFor(c, timestamp) : c[i].ok}

\* a sidecar that exists when the conversion starts is there afterwards with the same
\* mtime, and no extraction is made for its timestamp
SidecarsPreserved(f, g, c) ==
    \A p \in FilesOf(f, LOCAL_OUTPUT_DIR, <<>>) :
        MatchesRawNotesGlob(p.name) =>
            /\ p \in DOMAIN g
            /\ g[p] = f[p]
            /\ ExtractionsFor(c, p.name.stem) = {}

\* C30 as stated: a conversion keeps the existing sidecars, and for every timestamp of a
\* visual file that lacks a sidecar it makes at most one successful extraction and
\* writes the sidecar
C30_OneSidecarPerNote ==
    [][pc = "sync_convert" =>
          /\ SidecarsPreserved(fs, fs', calls')
          /\ \A t \in VisualStamps(fs) :
                 OutputSidecar(t) \notin DOMAIN fs =>
                     /\ Cardinality(SuccessesFor(calls', t)) <= 1
                     /\ OutputSidecar(t) \in DOMAIN fs']_vars

\* C30: a conversion keeps the existing sidecars (same mtime, no extraction for their
\* timestamps); for every timestamp of a visual file that lacks a sidecar it makes at
\* most one successful extraction, however many pages share the timestamp; the
\* sidecar is written exactly when an extraction succeeded, and nothing else is written
C30_OneSidecarPerExtractedNote ==
    [][pc = "sync_convert" =>
          /\ SidecarsPreserved(fs, fs', calls')
          /\ \A t \in VisualStamps(fs) :
                 OutputSidecar(t) \notin DOMAIN fs =>
                     /\ Cardinality(SuccessesFor(calls', t)) <= 1
                     /\ OutputSidecar(t) \in DOMAIN fs' <=> SuccessesFor(calls', t) # {}
          /\ DOMAIN fs' \ DOMAIN fs =
                 {OutputSidecar(t) : t \in {u \in VisualStamps(fs) : SuccessesFor(calls', u) # {}}}
          /\ \A p \in DOMAIN fs : fs'[p] = fs[p]]_vars

\* two pages of one note lay in the output directory without a sidecar; the conversion
\* made one extraction and wrote the one sidecar
C30_Witness ==
    /\ pc = "sync_out_in"
    /\ Path(LOCAL_OUTPUT_DIR, <<>>, Name(StampA, 1, <<>>, "png")) \in DOMAIN fs
    /\ Path(LOCAL_OUTPUT_DIR, <<>>, Name(StampA, 2, <<>>, "png")) \in DOMAIN fs
    /\ OutputSidecar(StampA) \in written
    /\ Len(calls) = 1
    /\ calls[1].ok

-----------------------------------------------------------------------------
(* Sync: failures *)

Reported(bad) == \E i \in DOMAIN out : out[i] = bad
Uploaded(p) == Path(GDRIVE_FOLDER, p.dirs, p.name) \in written
OutputFiles == {files_from_output(fs)[i] : i \in 1..Len(files_from_output(fs))}

\* C25: a sync call never raises; when Phase 1 is over, every file of the output
\* directory is in every input directory unless its copy or directory creation was
\* reported; when the uploads are over, every file of the output directory was
\* uploaded unless its read or its upload was reported
C25_SyncBestEffort ==
    /\ pc # "sync_raised"
    /\ pc = "sync_in_out" =>
           \A p \in OutputFiles : \A d \in Roots :
               \/ Path(d, p.dirs, p.name) \in DOMAIN fs
               \/ Reported([kind |-> "copy", file |-> p, dir |-> d])
               \/ Reported([kind |-> "mkdir", file |-> p, dir |-> d])
    /\ pc = "sync_uploaded" =>
           \A p \in OutputFiles :
               \/ Uploaded(p)
               \/ Reported([kind |-> "read", file |-> p])
               \/ Reported([kind |-> "upload", file |-> p])

-----------------------------------------------------------------------------
(* Sync: analyses and staleness *)

InSync == pc \in {"sync_raw", "sync_convert", "sync_out_in", "sync_in_out", "sync_gdrive"}

\* the source files of the input directories in f
InputSources(f) == {p \in DOMAIN f : p.root \in Roots /\ IsSource(p) /\ DateOf(p) # NoDate}

\* the analysis of a source is up to date in f: it exists and is not older than the
\* source and, for a visual source, its sidecar
UpToDateIn(f, p) ==
    /\ AnalysisOf(p) \in DOMAIN f
    /\ f[p] <= f[AnalysisOf(p)]
    /\ (IsVisual(p) /\ SidecarOf(p) \in DOMAIN f) => f[SidecarOf(p)] <= f[AnalysisOf(p)]

\* C27: no step of a sync gives an analysis file of an input directory an older
\* mtime, and a source of an input directory whose analysis is up to date before the
\* step has an up-to-date analysis after it
C27_SyncKeepsProcessed ==
    [][InSync =>
          /\ \A a \in DOMAIN fs :
                 (a.root \in Roots /\ a.dirs = <<"daily">> /\ MatchesTriagedGlob(a.name)) =>
                     fs'[a] >= fs[a]
          /\ \A p \in InputSources(fs) : UpToDateIn(fs, p) => UpToDateIn(fs', p)]_vars

-----------------------------------------------------------------------------
(* Sync: what one call brings together *)

\* sync_files_across_directories has returned and its errors are empty
ErrorFree == pc \in {"sync_done", "sync_uploaded"} /\ out = <<>>

\* the files that existed before the call: a sync deletes nothing, and `written` holds
\* what it created
BeforeCall == DOMAIN fs \ written

IsAnalysisFile(p) == p.dirs # <<>> /\ MatchesTriagedGlob(p.name)
IsSidecarFile(p) == MatchesRawNotesGlob(p.name)

====
